---- MODULE Spec2Model ----
(***************************************************************************)
(* Publication summary pipeline of the Faculty Publication System:         *)
(* server/routes.ts (HTTP handlers, groupPublications, the renderers and   *)
(* generatePublicationSummary) over the publications table of              *)
(* server/storage.ts.                                                      *)
(*                                                                         *)
(* A JavaScript string is modelled as the sequence of its characters, a    *)
(* Buffer as the sequence of its bytes.                                    *)
(***************************************************************************)
EXTENDS Integers, Sequences, FiniteSets, TLC

\* ------------------------------------------------------------------ bounds
\* number of rows the publications table may receive (serial ids 1..MaxPubs)
MaxPubs == 2

\* ------------------------------------------------------------------- state
\* the last value of the serial publications.id: it grows with every insert
\* and stands for the time of the insert (created_at)
VARIABLE pubSeq

\* ------------------------------------------------------- JavaScript values
\* null and undefined: one-element sequences that are no character string
Null == <<"null">>
Undefined == <<"undefined">>

\* `v || w`, `v ? a : b`, `if (v)`: null, undefined and "" are falsy
Falsy(v) == v \in {Null, Undefined, <<>>}

\* a number that may be NaN
NaN == [nan |-> TRUE, val |-> 0]
Num(n) == [nan |-> FALSE, val |-> n]

Digits == <<"0", "1", "2", "3", "4", "5", "6", "7", "8", "9">>

DigitValue ==
    ("0" :> 0) @@ ("1" :> 1) @@ ("2" :> 2) @@ ("3" :> 3) @@ ("4" :> 4) @@
    ("5" :> 5) @@ ("6" :> 6) @@ ("7" :> 7) @@ ("8" :> 8) @@ ("9" :> 9)

RECURSIVE NatToString(_)
NatToString(n) ==
    IF n < 10 THEN <<Digits[n + 1]>>
    ELSE NatToString(n \div 10) \o <<Digits[(n % 10) + 1]>>

\* Number.prototype.toString() of an integer
NumberToString(n) ==
    IF n < 0 THEN <<"-">> \o NatToString(0 - n) ELSE NatToString(n)

RECURSIVE SkipWhite(_)
SkipWhite(s) ==
    IF s # <<>> /\ s[1] \in {" ", "\n"} THEN SkipWhite(Tail(s)) ELSE s

RECURSIVE DigitPrefix(_)
DigitPrefix(s) ==
    IF s # <<>> /\ s[1] \in DOMAIN DigitValue
    THEN <<s[1]>> \o DigitPrefix(Tail(s))
    ELSE <<>>

RECURSIVE DigitsValue(_)
DigitsValue(d) ==
    IF d = <<>> THEN 0
    ELSE 10 * DigitsValue(SubSeq(d, 1, Len(d) - 1)) + DigitValue[d[Len(d)]]

\* parseInt(s): leading white space, an optional sign, the longest prefix of
\* decimal digits; NaN when there is no digit
ParseInt(s) ==
    LET t == SkipWhite(s)
        signed == t # <<>> /\ t[1] \in {"-", "+"}
        d == DigitPrefix(IF signed THEN Tail(t) ELSE t)
    IN  IF d = <<>> THEN NaN
        ELSE IF signed /\ t[1] = "-" THEN Num(0 - DigitsValue(d))
        ELSE Num(DigitsValue(d))

\* x - y on numbers: NaN when either operand is NaN
Minus(x, y) == IF x.nan \/ y.nan THEN NaN ELSE Num(x.val - y.val)

LowerCaseOf ==
    ("A" :> "a") @@ ("B" :> "b") @@ ("C" :> "c") @@ ("D" :> "d") @@ ("E" :> "e") @@ ("F" :> "f") @@
    ("G" :> "g") @@ ("H" :> "h") @@ ("I" :> "i") @@ ("J" :> "j") @@ ("K" :> "k") @@ ("L" :> "l") @@
    ("M" :> "m") @@ ("N" :> "n") @@ ("O" :> "o") @@ ("P" :> "p") @@ ("Q" :> "q") @@ ("R" :> "r") @@
    ("S" :> "s") @@ ("T" :> "t") @@ ("U" :> "u") @@ ("V" :> "v") @@ ("W" :> "w") @@ ("X" :> "x") @@
    ("Y" :> "y") @@ ("Z" :> "z")

\* String.prototype.toLowerCase()
ToLowerCase(s) ==
    [i \in 1..Len(s) |-> IF s[i] \in DOMAIN LowerCaseOf THEN LowerCaseOf[s[i]] ELSE s[i]]

\* primary collation weight of a character: white space, punctuation and
\* symbols, digits, then letters with both cases of a letter sharing a weight
PrimaryWeight ==
    ("\n" :> 1) @@ (" " :> 2) @@ ("_" :> 3) @@ ("-" :> 4) @@ ("," :> 5) @@ (";" :> 6) @@
    (":" :> 7) @@ ("!" :> 8) @@ ("?" :> 9) @@ ("." :> 10) @@ ("'" :> 11) @@ ("\"" :> 12) @@
    ("(" :> 13) @@ (")" :> 14) @@ ("[" :> 15) @@ ("]" :> 16) @@ ("{" :> 17) @@ ("}" :> 18) @@
    ("@" :> 19) @@ ("*" :> 20) @@ ("/" :> 21) @@ ("\\" :> 22) @@ ("&" :> 23) @@ ("#" :> 24) @@
    ("%" :> 25) @@ ("^" :> 26) @@ ("+" :> 27) @@ ("<" :> 28) @@ ("=" :> 29) @@ (">" :> 30) @@
    ("|" :> 31) @@ ("~" :> 32) @@ ("$" :> 33) @@ ("0" :> 34) @@ ("1" :> 35) @@ ("2" :> 36) @@
    ("3" :> 37) @@ ("4" :> 38) @@ ("5" :> 39) @@ ("6" :> 40) @@ ("7" :> 41) @@ ("8" :> 42) @@
    ("9" :> 43) @@ ("a" :> 44) @@ ("A" :> 44) @@ ("b" :> 45) @@ ("B" :> 45) @@ ("c" :> 46) @@
    ("C" :> 46) @@ ("d" :> 47) @@ ("D" :> 47) @@ ("e" :> 48) @@ ("E" :> 48) @@ ("f" :> 49) @@
    ("F" :> 49) @@ ("g" :> 50) @@ ("G" :> 50) @@ ("h" :> 51) @@ ("H" :> 51) @@ ("i" :> 52) @@
    ("I" :> 52) @@ ("j" :> 53) @@ ("J" :> 53) @@ ("k" :> 54) @@ ("K" :> 54) @@ ("l" :> 55) @@
    ("L" :> 55) @@ ("m" :> 56) @@ ("M" :> 56) @@ ("n" :> 57) @@ ("N" :> 57) @@ ("o" :> 58) @@
    ("O" :> 58) @@ ("p" :> 59) @@ ("P" :> 59) @@ ("q" :> 60) @@ ("Q" :> 60) @@ ("r" :> 61) @@
    ("R" :> 61) @@ ("s" :> 62) @@ ("S" :> 62) @@ ("t" :> 63) @@ ("T" :> 63) @@ ("u" :> 64) @@
    ("U" :> 64) @@ ("v" :> 65) @@ ("V" :> 65) @@ ("w" :> 66) @@ ("W" :> 66) @@ ("x" :> 67) @@
    ("X" :> 67) @@ ("y" :> 68) @@ ("Y" :> 68) @@ ("z" :> 69) @@ ("Z" :> 69)

\* tertiary collation weight: a lower-case letter sorts before its capital
TertiaryWeight(c) == IF c \in DOMAIN LowerCaseOf THEN 1 ELSE 0

RECURSIVE LexCompare(_, _)
LexCompare(a, b) ==
    IF a = <<>> THEN (IF b = <<>> THEN 0 ELSE 0 - 1)
    ELSE IF b = <<>> THEN 1
    ELSE IF a[1] < b[1] THEN 0 - 1
    ELSE IF a[1] > b[1] THEN 1
    ELSE LexCompare(Tail(a), Tail(b))

\* a.localeCompare(b): compare the primary weights, then the case weights
LocaleCompare(a, b) ==
    LET p == LexCompare([i \in 1..Len(a) |-> PrimaryWeight[a[i]]],
                        [i \in 1..Len(b) |-> PrimaryWeight[b[i]]])
    IN  IF p # 0 THEN Num(p)
        ELSE Num(LexCompare([i \in 1..Len(a) |-> TertiaryWeight(a[i])],
                            [i \in 1..Len(b) |-> TertiaryWeight(b[i])]))

Utf8 ==
    ("\n" :> 10) @@ (" " :> 32) @@ ("!" :> 33) @@ ("\"" :> 34) @@ ("#" :> 35) @@ ("$" :> 36) @@
    ("%" :> 37) @@ ("&" :> 38) @@ ("'" :> 39) @@ ("(" :> 40) @@ (")" :> 41) @@ ("*" :> 42) @@
    ("+" :> 43) @@ ("," :> 44) @@ ("-" :> 45) @@ ("." :> 46) @@ ("/" :> 47) @@ ("0" :> 48) @@
    ("1" :> 49) @@ ("2" :> 50) @@ ("3" :> 51) @@ ("4" :> 52) @@ ("5" :> 53) @@ ("6" :> 54) @@
    ("7" :> 55) @@ ("8" :> 56) @@ ("9" :> 57) @@ (":" :> 58) @@ (";" :> 59) @@ ("<" :> 60) @@
    ("=" :> 61) @@ (">" :> 62) @@ ("?" :> 63) @@ ("@" :> 64) @@ ("A" :> 65) @@ ("B" :> 66) @@
    ("C" :> 67) @@ ("D" :> 68) @@ ("E" :> 69) @@ ("F" :> 70) @@ ("G" :> 71) @@ ("H" :> 72) @@
    ("I" :> 73) @@ ("J" :> 74) @@ ("K" :> 75) @@ ("L" :> 76) @@ ("M" :> 77) @@ ("N" :> 78) @@
    ("O" :> 79) @@ ("P" :> 80) @@ ("Q" :> 81) @@ ("R" :> 82) @@ ("S" :> 83) @@ ("T" :> 84) @@
    ("U" :> 85) @@ ("V" :> 86) @@ ("W" :> 87) @@ ("X" :> 88) @@ ("Y" :> 89) @@ ("Z" :> 90) @@
    ("[" :> 91) @@ ("\\" :> 92) @@ ("]" :> 93) @@ ("^" :> 94) @@ ("_" :> 95) @@ ("a" :> 97) @@
    ("b" :> 98) @@ ("c" :> 99) @@ ("d" :> 100) @@ ("e" :> 101) @@ ("f" :> 102) @@ ("g" :> 103) @@
    ("h" :> 104) @@ ("i" :> 105) @@ ("j" :> 106) @@ ("k" :> 107) @@ ("l" :> 108) @@ ("m" :> 109) @@
    ("n" :> 110) @@ ("o" :> 111) @@ ("p" :> 112) @@ ("q" :> 113) @@ ("r" :> 114) @@ ("s" :> 115) @@
    ("t" :> 116) @@ ("u" :> 117) @@ ("v" :> 118) @@ ("w" :> 119) @@ ("x" :> 120) @@ ("y" :> 121) @@
    ("z" :> 122) @@ ("{" :> 123) @@ ("|" :> 124) @@ ("}" :> 125) @@ ("~" :> 126)

RECURSIVE Flatten(_)
Flatten(ss) == IF ss = <<>> THEN <<>> ELSE Head(ss) \o Flatten(Tail(ss))

\* Buffer.from(string): the UTF-8 bytes of the string
BufferFrom(s) == [i \in 1..Len(s) |-> Utf8[s[i]]]

\* "-".repeat(n)
Repeat(c, n) == [i \in 1..n |-> c]

\* ------------------------------------------------------------ the grouper
\* Map<string, Publication[]> as the sequence of its entries in iteration
\* order; an entry is [key, pubs]
MapHas(m, key) == \E i \in 1..Len(m) : m[i].key = key

MapIndex(m, key) == CHOOSE i \in 1..Len(m) : m[i].key = key

\* map.set(key, value): replaces the value of a present key in place, adds
\* a new key at the end
MapSet(m, key, value) ==
    IF MapHas(m, key) THEN [m EXCEPT ![MapIndex(m, key)].pubs = value]
    ELSE Append(m, [key |-> key, pubs |-> value])

RECURSIVE NewMap(_)
NewMap(entries) ==
    IF entries = <<>> THEN <<>>
    ELSE LET n == Len(entries)
         IN  MapSet(NewMap(SubSeq(entries, 1, n - 1)), entries[n].key, entries[n].pubs)

\* mutant of GroupKey: the filter is matched without regard to letter case
GroupKey_AnyCase(pub, filter) ==
    IF ToLowerCase(filter) = <<"y", "e", "a", "r">> THEN NumberToString(pub.year)
    ELSE IF ToLowerCase(filter) = <<"t", "y", "p", "e">> THEN pub.type
    ELSE IF ToLowerCase(filter) = <<"a", "r", "e", "a">>
         THEN (IF Falsy(pub.researchArea) THEN <<"U", "n", "c", "a", "t", "e", "g", "o", "r", "i", "z", "e", "d">> ELSE pub.researchArea)
    ELSE <<"A", "l", "l", " ", "P", "u", "b", "l", "i", "c", "a", "t", "i", "o", "n", "s">>

\* mutant of GroupKey: `??` in place of `||`, only null and undefined fall
\* back to "Uncategorized"
GroupKey_Nullish(pub, filter) ==
    IF filter = <<"y", "e", "a", "r">> THEN NumberToString(pub.year)
    ELSE IF filter = <<"t", "y", "p", "e">> THEN pub.type
    ELSE IF filter = <<"a", "r", "e", "a">>
         THEN (IF pub.researchArea \in {Null, Undefined} THEN <<"U", "n", "c", "a", "t", "e", "g", "o", "r", "i", "z", "e", "d">>
               ELSE pub.researchArea)
    ELSE <<"A", "l", "l", " ", "P", "u", "b", "l", "i", "c", "a", "t", "i", "o", "n", "s">>

\* the switch on filter in the forEach callback
GroupKey(pub, filter) ==
    IF filter = <<"y", "e", "a", "r">> THEN NumberToString(pub.year)
    ELSE IF filter = <<"t", "y", "p", "e">> THEN pub.type
    ELSE IF filter = <<"a", "r", "e", "a">>
         THEN (IF Falsy(pub.researchArea) THEN <<"U", "n", "c", "a", "t", "e", "g", "o", "r", "i", "z", "e", "d">> ELSE pub.researchArea)
    ELSE <<"A", "l", "l", " ", "P", "u", "b", "l", "i", "c", "a", "t", "i", "o", "n", "s">>

\* mutant of AddToGroup: the bucket is set to [] without the has() test
AddToGroup_Reset(groups, pub, filter) ==
    LET key == GroupKey(pub, filter)
        g == MapSet(groups, key, <<>>)
        i == MapIndex(g, key)
    IN  [g EXCEPT ![i].pubs = Append(@, pub)]

\* mutant of AddToGroup: unshift in place of push
AddToGroup_Unshift(groups, pub, filter) ==
    LET key == GroupKey(pub, filter)
        g == IF MapHas(groups, key) THEN groups ELSE MapSet(groups, key, <<>>)
        i == MapIndex(g, key)
    IN  [g EXCEPT ![i].pubs = <<pub>> \o @]

\* one call of the forEach callback
AddToGroup(groups, pub, filter) ==
    LET key == GroupKey(pub, filter)
        g == IF MapHas(groups, key) THEN groups ELSE MapSet(groups, key, <<>>)
        i == MapIndex(g, key)
    IN  [g EXCEPT ![i].pubs = Append(@, pub)]

RECURSIVE ForEachPublication(_, _, _)
ForEachPublication(groups, publications, filter) ==
    IF publications = <<>> THEN groups
    ELSE ForEachPublication(AddToGroup(groups, Head(publications), filter),
                            Tail(publications), filter)

\* mutant of CompareEntries: the year keys are compared as strings
CompareEntries_Lexical(a, b, filter) ==
    IF filter = <<"y", "e", "a", "r">> THEN LocaleCompare(b.key, a.key)
    ELSE LocaleCompare(a.key, b.key)

\* mutant of CompareEntries: the keys are compared by their code units
\* (a[0] < b[0] ? -1 : a[0] > b[0] ? 1 : 0) in place of localeCompare
CompareEntries_CodeUnit(a, b, filter) ==
    IF filter = <<"y", "e", "a", "r">> THEN Minus(ParseInt(b.key), ParseInt(a.key))
    ELSE Num(LexCompare(BufferFrom(a.key), BufferFrom(b.key)))

\* the comparator handed to sort
CompareEntries(a, b, filter) ==
    IF filter = <<"y", "e", "a", "r">> THEN Minus(ParseInt(b.key), ParseInt(a.key))
    ELSE LocaleCompare(a.key, b.key)

\* Array.prototype.sort reads a comparator result of NaN as +0
SortOrder(v) == IF v.nan THEN 0 ELSE v.val

RECURSIVE InsertEntry(_, _, _)
InsertEntry(sorted, e, filter) ==
    IF sorted = <<>> THEN <<e>>
    ELSE LET n == Len(sorted)
         IN  IF SortOrder(CompareEntries(sorted[n], e, filter)) > 0
             THEN Append(InsertEntry(SubSeq(sorted, 1, n - 1), e, filter), sorted[n])
             ELSE Append(sorted, e)

\* Array.prototype.sort with a comparator: a stable sort
RECURSIVE SortEntries(_, _)
SortEntries(entries, filter) ==
    IF entries = <<>> THEN <<>>
    ELSE LET n == Len(entries)
         IN  InsertEntry(SortEntries(SubSeq(entries, 1, n - 1), filter), entries[n], filter)

\* mutant of groupPublications: the map starts with an empty group
\* "All Publications" (groups.set("All Publications", []) before the loop)
groupPublications_Seeded(publications, filter) ==
    NewMap(SortEntries(ForEachPublication(<<[key |-> <<"A", "l", "l", " ", "P", "u", "b", "l", "i", "c", "a", "t", "i", "o", "n", "s">>, pubs |-> <<>>]>>,
                                          publications, filter), filter))

groupPublications(publications, filter) ==
    NewMap(SortEntries(ForEachPublication(<<>>, publications, filter), filter))

\* ---------------------------------------------------------- the renderers
\* mutant of PublicationText: the DOI line is written for every doi that is
\* not null (pub.doi !== null)
PublicationText_NonNullDoi(pub) ==
    pub.title \o <<"\n">>
    \o <<"A", "u", "t", "h", "o", "r", "s", ":", " ">> \o pub.authors \o <<"\n">>
    \o pub.venue \o <<",", " ">> \o NumberToString(pub.year) \o <<"\n">>
    \o (IF pub.doi = Null THEN <<>> ELSE <<"D", "O", "I", ":", " ">> \o pub.doi \o <<"\n">>)
    \o <<"\n">>

\* the text of one publication in formatSummaryText
PublicationText(pub) ==
    pub.title \o <<"\n">>
    \o <<"A", "u", "t", "h", "o", "r", "s", ":", " ">> \o pub.authors \o <<"\n">>
    \o pub.venue \o <<",", " ">> \o NumberToString(pub.year) \o <<"\n">>
    \o (IF Falsy(pub.doi) THEN <<>> ELSE <<"D", "O", "I", ":", " ">> \o pub.doi \o <<"\n">>)
    \o <<"\n">>

\* mutant of GroupText: an underline of fixed width ("-".repeat(20))
GroupText_FixedRule(e) ==
    e.key \o <<"\n">> \o Repeat("-", 20) \o <<"\n", "\n">>
    \o Flatten([j \in 1..Len(e.pubs) |-> PublicationText(e.pubs[j])])

GroupText(e) ==
    e.key \o <<"\n">> \o Repeat("-", Len(e.key)) \o <<"\n", "\n">>
    \o Flatten([j \in 1..Len(e.pubs) |-> PublicationText(e.pubs[j])])

\* mutant of formatSummaryText: a line with the time of generation
formatSummaryText_Dated(grouped) ==
    <<"P", "u", "b", "l", "i", "c", "a", "t", "i", "o", "n", "s", " ", "S", "u", "m", "m", "a", "r", "y", "\n">> \o <<"G", "e", "n", "e", "r", "a", "t", "e", "d", " ", "a", "t", " ">> \o NumberToString(pubSeq) \o <<"\n", "\n">>
    \o Flatten([i \in 1..Len(grouped) |-> GroupText(grouped[i])])

formatSummaryText(grouped) ==
    <<"P", "u", "b", "l", "i", "c", "a", "t", "i", "o", "n", "s", " ", "S", "u", "m", "m", "a", "r", "y", "\n", "\n">>
    \o Flatten([i \in 1..Len(grouped) |-> GroupText(grouped[i])])

HtmlHead ==
    <<
    "\n", " ", " ", " ", " ", "<", "!", "D", "O", "C", "T", "Y",
    "P", "E", " ", "h", "t", "m", "l", ">", "\n", " ", " ", " ",
    " ", "<", "h", "t", "m", "l", ">", "\n", " ", " ", " ", " ",
    "<", "h", "e", "a", "d", ">", "\n", " ", " ", " ", " ", " ",
    " ", "<", "t", "i", "t", "l", "e", ">", "P", "u", "b", "l",
    "i", "c", "a", "t", "i", "o", "n", "s", " ", "S", "u", "m",
    "m", "a", "r", "y", "<", "/", "t", "i", "t", "l", "e", ">",
    "\n", " ", " ", " ", " ", " ", " ", "<", "s", "t", "y", "l",
    "e", ">", "\n", " ", " ", " ", " ", " ", " ", " ", " ", "b",
    "o", "d", "y", " ", "{", " ", "f", "o", "n", "t", "-", "f",
    "a", "m", "i", "l", "y", ":", " ", "s", "y", "s", "t", "e",
    "m", "-", "u", "i", ";", " ", "m", "a", "x", "-", "w", "i",
    "d", "t", "h", ":", " ", "8", "0", "0", "p", "x", ";", " ",
    "m", "a", "r", "g", "i", "n", ":", " ", "2", "r", "e", "m",
    " ", "a", "u", "t", "o", ";", " ", "p", "a", "d", "d", "i",
    "n", "g", ":", " ", "0", " ", "1", "r", "e", "m", ";", " ",
    "}", "\n", " ", " ", " ", " ", " ", " ", " ", " ", "h", "1",
    " ", "{", " ", "c", "o", "l", "o", "r", ":", " ", "#", "1",
    "a", "3", "6", "5", "d", ";", " ", "}", "\n", " ", " ", " ",
    " ", " ", " ", " ", " ", "h", "2", " ", "{", " ", "c", "o",
    "l", "o", "r", ":", " ", "#", "2", "c", "5", "2", "8", "2",
    ";", " ", "b", "o", "r", "d", "e", "r", "-", "b", "o", "t",
    "t", "o", "m", ":", " ", "2", "p", "x", " ", "s", "o", "l",
    "i", "d", " ", "#", "e", "2", "e", "8", "f", "0", ";", " ",
    "p", "a", "d", "d", "i", "n", "g", "-", "b", "o", "t", "t",
    "o", "m", ":", " ", "0", ".", "5", "r", "e", "m", ";", " ",
    "}", "\n", " ", " ", " ", " ", " ", " ", " ", " ", ".", "p",
    "u", "b", "l", "i", "c", "a", "t", "i", "o", "n", " ", "{",
    " ", "m", "a", "r", "g", "i", "n", "-", "b", "o", "t", "t",
    "o", "m", ":", " ", "1", ".", "5", "r", "e", "m", ";", " ",
    "}", "\n", " ", " ", " ", " ", " ", " ", " ", " ", ".", "t",
    "i", "t", "l", "e", " ", "{", " ", "f", "o", "n", "t", "-",
    "w", "e", "i", "g", "h", "t", ":", " ", "b", "o", "l", "d",
    ";", " ", "m", "a", "r", "g", "i", "n", "-", "b", "o", "t",
    "t", "o", "m", ":", " ", "0", ".", "5", "r", "e", "m", ";",
    " ", "}", "\n", " ", " ", " ", " ", " ", " ", " ", " ", ".",
    "m", "e", "t", "a", "d", "a", "t", "a", " ", "{", " ", "c",
    "o", "l", "o", "r", ":", " ", "#", "4", "a", "5", "5", "6",
    "8", ";", " ", "}", "\n", " ", " ", " ", " ", " ", " ", " ",
    " ", ".", "d", "o", "i", " ", "{", " ", "c", "o", "l", "o",
    "r", ":", " ", "#", "2", "b", "6", "c", "b", "0", ";", " ",
    "t", "e", "x", "t", "-", "d", "e", "c", "o", "r", "a", "t",
    "i", "o", "n", ":", " ", "n", "o", "n", "e", ";", " ", "}",
    "\n", " ", " ", " ", " ", " ", " ", " ", " ", ".", "d", "o",
    "i", ":", "h", "o", "v", "e", "r", " ", "{", " ", "t", "e",
    "x", "t", "-", "d", "e", "c", "o", "r", "a", "t", "i", "o",
    "n", ":", " ", "u", "n", "d", "e", "r", "l", "i", "n", "e",
    ";", " ", "}", "\n", " ", " ", " ", " ", " ", " ", "<", "/",
    "s", "t", "y", "l", "e", ">", "\n", " ", " ", " ", " ", "<",
    "/", "h", "e", "a", "d", ">", "\n", " ", " ", " ", " ", "<",
    "b", "o", "d", "y", ">", "\n", " ", " ", " ", " ", " ", " ",
    "<", "h", "1", ">", "P", "u", "b", "l", "i", "c", "a", "t",
    "i", "o", "n", "s", " ", "S", "u", "m", "m", "a", "r", "y",
    "<", "/", "h", "1", ">", "\n", " ", " " >>

HtmlTail ==
    <<
    "\n", " ", " ", " ", " ", "<", "/", "b", "o", "d", "y", ">",
    "\n", " ", " ", " ", " ", "<", "/", "h", "t", "m", "l", ">",
    "\n", " ", " " >>

PublicationHTML(pub) ==
    <<"\n", " ", " ", " ", " ", " ", " ", " ", " ", "<", "d", "i", "v", " ", "c", "l", "a", "s", "s", "=", "\"", "p", "u", "b", "l", "i", "c", "a", "t", "i", "o", "n", "\"", ">", "\n", " ", " ", " ", " ", " ", " ", " ", " ", " ", " ", "<", "d", "i", "v", " ", "c", "l", "a", "s", "s", "=", "\"", "t", "i", "t", "l", "e", "\"", ">">>
    \o pub.title
    \o <<"<", "/", "d", "i", "v", ">", "\n", " ", " ", " ", " ", " ", " ", " ", " ", " ", " ", "<", "d", "i", "v", " ", "c", "l", "a", "s", "s", "=", "\"", "m", "e", "t", "a", "d", "a", "t", "a", "\"", ">", "\n", " ", " ", " ", " ", " ", " ", " ", " ", " ", " ", " ", " ">>
    \o pub.authors
    \o <<"<", "b", "r", ">", "\n", " ", " ", " ", " ", " ", " ", " ", " ", " ", " ", " ", " ">>
    \o pub.venue \o <<",", " ">> \o NumberToString(pub.year)
    \o <<"\n", " ", " ", " ", " ", " ", " ", " ", " ", " ", " ", " ", " ">>
    \o (IF Falsy(pub.doi) THEN <<>>
        ELSE <<"<", "b", "r", ">", "<", "a", " ", "h", "r", "e", "f", "=", "\"", "h", "t", "t", "p", "s", ":", "/", "/", "d", "o", "i", ".", "o", "r", "g", "/">> \o pub.doi
             \o <<"\"", " ", "c", "l", "a", "s", "s", "=", "\"", "d", "o", "i", "\"", ">", "D", "O", "I", ":", " ">> \o pub.doi \o <<"<", "/", "a", ">">>)
    \o <<"\n", " ", " ", " ", " ", " ", " ", " ", " ", " ", " ", "<", "/", "d", "i", "v", ">", "\n", " ", " ", " ", " ", " ", " ", " ", " ", "<", "/", "d", "i", "v", ">", "\n", " ", " ", " ", " ", " ", " ">>

\* mutant of GroupHTML: the heading is written inside publications.forEach,
\* once for every publication
GroupHTML_HeadingPerPublication(e) ==
    Flatten([j \in 1..Len(e.pubs) |->
                <<"<", "h", "2", ">">> \o e.key \o <<"<", "/", "h", "2", ">">> \o PublicationHTML(e.pubs[j])])

GroupHTML(e) ==
    <<"<", "h", "2", ">">> \o e.key \o <<"<", "/", "h", "2", ">">>
    \o Flatten([j \in 1..Len(e.pubs) |-> PublicationHTML(e.pubs[j])])

generateHTML(grouped) ==
    HtmlHead
    \o Flatten([i \in 1..Len(grouped) |-> GroupHTML(grouped[i])])
    \o HtmlTail

\* mutant of generatePDFSummary: the content starts with a PDF header
generatePDFSummary_Header(grouped) ==
    [content |-> BufferFrom(<<"%", "P", "D", "F", "-", "1", ".", "4", "\n">> \o formatSummaryText(grouped)),
     contentType |-> <<"a", "p", "p", "l", "i", "c", "a", "t", "i", "o", "n", "/", "p", "d", "f">>,
     extension |-> <<"p", "d", "f">>]

generatePDFSummary(grouped) ==
    [content |-> BufferFrom(formatSummaryText(grouped)),
     contentType |-> <<"a", "p", "p", "l", "i", "c", "a", "t", "i", "o", "n", "/", "p", "d", "f">>,
     extension |-> <<"p", "d", "f">>]

generateWordSummary(grouped) ==
    [content |-> BufferFrom(formatSummaryText(grouped)),
     contentType |-> <<"a", "p", "p", "l", "i", "c", "a", "t", "i", "o", "n", "/", "v", "n", "d", ".", "o", "p", "e", "n", "x", "m", "l", "f", "o", "r", "m", "a", "t", "s", "-", "o", "f", "f", "i", "c", "e", "d", "o", "c", "u", "m", "e", "n", "t", ".", "w", "o", "r", "d", "p", "r", "o", "c", "e", "s", "s", "i", "n", "g", "m", "l", ".", "d", "o", "c", "u", "m", "e", "n", "t">>,
     extension |-> <<"d", "o", "c", "x">>]

generateWebSummary(grouped) ==
    [content |-> BufferFrom(generateHTML(grouped)),
     contentType |-> <<"t", "e", "x", "t", "/", "h", "t", "m", "l">>,
     extension |-> <<"h", "t", "m", "l">>]

\* ---------------------------------------------------------- the dispatcher
NoSummary == [content |-> Null, contentType |-> Null, extension |-> Null]

\* the outcome of the promise generatePublicationSummary returns: fulfilled
\* with a Summary (threw = "none"), or rejected with the error thrown
Fulfilled(summary) == [threw |-> "none", message |-> Null, summary |-> summary]

Rejected(kind, message) == [threw |-> kind, message |-> message, summary |-> NoSummary]

\* mutant of DispatchFormat: the default branch returns the PDF summary
DispatchFormat_DefaultPdf(grouped, format) ==
    LET f == ToLowerCase(format)
    IN  IF f = <<"p", "d", "f">> THEN Fulfilled(generatePDFSummary(grouped))
        ELSE IF f = <<"w", "o", "r", "d">> THEN Fulfilled(generateWordSummary(grouped))
        ELSE IF f = <<"w", "e", "b">> THEN Fulfilled(generateWebSummary(grouped))
        ELSE Fulfilled(generatePDFSummary(grouped))

\* mutant of DispatchFormat: the switch is on format, not lower-cased
DispatchFormat_CaseSensitive(grouped, format) ==
    IF format = <<"p", "d", "f">> THEN Fulfilled(generatePDFSummary(grouped))
    ELSE IF format = <<"w", "o", "r", "d">> THEN Fulfilled(generateWordSummary(grouped))
    ELSE IF format = <<"w", "e", "b">> THEN Fulfilled(generateWebSummary(grouped))
    ELSE Rejected("Error", <<"U", "n", "s", "u", "p", "p", "o", "r", "t", "e", "d", " ", "f", "o", "r", "m", "a", "t", ":", " ">> \o format)

\* the switch on format.toLowerCase()
DispatchFormat(grouped, format) ==
    LET f == ToLowerCase(format)
    IN  IF f = <<"p", "d", "f">> THEN Fulfilled(generatePDFSummary(grouped))
        ELSE IF f = <<"w", "o", "r", "d">> THEN Fulfilled(generateWordSummary(grouped))
        ELSE IF f = <<"w", "e", "b">> THEN Fulfilled(generateWebSummary(grouped))
        ELSE Rejected("Error", <<"U", "n", "s", "u", "p", "p", "o", "r", "t", "e", "d", " ", "f", "o", "r", "m", "a", "t", ":", " ">> \o format)

\* format is read from req.query and is undefined when the parameter is
\* missing: format.toLowerCase() then throws a TypeError, after the grouping
generatePublicationSummary(publications, format, filter) ==
    LET grouped == groupPublications(publications, filter)
    IN  IF format \in {Undefined, Null}
        THEN Rejected("TypeError",
                      <<"C", "a", "n", "n", "o", "t", " ", "r", "e", "a", "d", " ", "p", "r", "o", "p", "e", "r", "t", "i", "e", "s", " ", "o", "f", " ", "u", "n", "d", "e", "f", "i", "n", "e", "d", " ", "(", "r", "e", "a", "d", "i", "n", "g", " ", "'", "t", "o", "L", "o", "w", "e", "r", "C", "a", "s", "e", "'", ")">>)
        ELSE DispatchFormat(grouped, format)

\* ------------------------------------------------------------- the storage
\* the registered accounts: ids of the users table; user 2 has is_admin set
Users == {1, 2}

IsAdmin(u) == u = 2

\* req.isAuthenticated() is false: the request carries no session user
NoUser == 0

\* request bodies insertPublicationSchema accepts (title, type, authors,
\* venue and year required; doi and researchArea optional and nullable)
InsertBodies ==
    { [title |-> <<"A">>, type |-> <<"B", "o", "o", "k">>, authors |-> <<"X">>, venue |-> <<"V", "1">>,
       year |-> 2023, doi |-> Null, researchArea |-> Undefined],
      [title |-> <<"B">>, type |-> <<"b", "o", "o", "k">>, authors |-> <<"Y">>, venue |-> <<"V", "2">>,
       year |-> 2021, doi |-> <<"1", "0", ".", "1", "/", "x", "y", "z">>, researchArea |-> <<"A", "I">>],
      [title |-> <<"C">>, type |-> <<"A", "r", "t", "i", "c", "l", "e">>, authors |-> <<"X">>, venue |-> <<"V", "1">>,
       year |-> 999, doi |-> <<>>, researchArea |-> <<"a", "i">>] }

\* request bodies insertPublicationSchema.partial() accepts: the edit form
\* submitted with its optional text inputs left empty
UpdateBodies == { [researchArea |-> <<>>, doi |-> <<>>] }

\* v || null
OrNull(v) == IF Falsy(v) THEN Null ELSE v

\* DatabaseStorage.createPublication: the row inserted for a parsed body.
\* created_at is the time of the insert; rows are inserted one at a time and
\* the serial id stands for that time.
NewPublication(body, userId, id) ==
    [id |-> id,
     title |-> body.title,
     type |-> body.type,
     authors |-> body.authors,
     venue |-> body.venue,
     year |-> body.year,
     doi |-> OrNull(body.doi),
     researchArea |-> OrNull(body.researchArea),
     userId |-> userId,
     createdAt |-> id]

\* DatabaseStorage.updatePublication: .set(publication) on the row
SetColumns(row, patch) ==
    [c \in DOMAIN row |-> IF c \in DOMAIN patch THEN patch[c] ELSE row[c]]

RECURSIVE OrderByCreatedAtDesc(_)
OrderByCreatedAtDesc(rows) ==
    IF rows = {} THEN <<>>
    ELSE LET r == CHOOSE x \in rows : \A o \in rows : o.createdAt <= x.createdAt
         IN  <<r>> \o OrderByCreatedAtDesc(rows \ {r})

VARIABLES
    publications,   \* the rows of the publications table
    req,            \* the summary request being handled: pc, user, format, filter
    pubsRead,       \* handler local `publications`: the rows read for the request
    grouped,        \* generatePublicationSummary local `grouped`
    outcome,        \* how the promise of generatePublicationSummary settled
    res,            \* the HTTP response of the summary request
    other           \* a second summary request in flight: the same handler's
                    \* req, pubsRead, grouped, outcome and res of that request

VARIABLES
    now,            \* the time of the server's clock, in minutes
    otpStore,       \* the module's otpStore: email -> {otp, expires}
    otpSeq,         \* the number of storeOTP calls made
    devLog,         \* the OTPs written to the console, per email, in order
    users,          \* the password column of the users table, by user id
    answer,         \* the last forgot-password or verify-otp request answered
    resets          \* the reset-password requests in flight

authVars == <<now, otpStore, otpSeq, devLog, users, answer, resets>>

pubVars == <<publications, pubSeq, req, pubsRead, grouped, outcome, res, other>>

VARIABLES
    edits           \* the PUT or DELETE /api/publications/:id request in flight
                    \* of each caller

editVars == <<edits>>

VARIABLES
    followers,          \* the rows of the followers table
    followSeq,          \* its serial
    friendRequests,     \* the rows of the friend_requests table
    friendSeq,          \* its serial
    researchGroups,     \* the rows of the research_groups table
    groupSeq,           \* its serial
    groupMemberships,   \* the rows of the group_memberships table
    memberSeq,          \* its serial
    memberReqs,         \* the research-group request in flight of each caller
    reply               \* the last follow or friend-request request answered

socialVars ==
    <<followers, followSeq, friendRequests, friendSeq, researchGroups, groupSeq,
      groupMemberships, memberSeq, memberReqs, reply>>

vars == <<pubVars, authVars, editVars, socialVars>>

\* mutant of getPublicationsByUser: the query without its where clause
getPublicationsByUser_All(userId) ==
    OrderByCreatedAtDesc(publications)

\* DatabaseStorage.getPublicationsByUser
getPublicationsByUser(userId) ==
    OrderByCreatedAtDesc({p \in publications : p.userId = userId})

\* DatabaseStorage.getPublication
getPublication(id) == {p \in publications : p.id = id}

\* ------------------------------------------------------------ the requests
Formats == { <<"p", "d", "f">>, <<"P", "D", "F">>, <<"W", "o", "r", "d">>, <<"w", "E", "b">>, <<"x", "m", "l">>, Undefined }

Filters == { <<"y", "e", "a", "r">>, <<"t", "y", "p", "e">>, <<"a", "r", "e", "a">>, <<"Y", "e", "a", "r">>, Undefined }

IdleReq == [pc |-> "idle", user |-> NoUser, format |-> Undefined, filter |-> Undefined]

NoOutcome == [threw |-> "pending", message |-> Null, summary |-> NoSummary]

\* a response on which nothing was set or sent yet
FreshRes ==
    [sent |-> FALSE, status |-> 200, contentType |-> Null,
     contentDisposition |-> Null, body |-> Null]

\* res.sendStatus(code): the status with its reason phrase as a text body
SendStatus(code, phrase) ==
    [sent |-> TRUE, status |-> code, contentType |-> <<"t", "e", "x", "t", "/", "p", "l", "a", "i", "n", ";", " ", "c", "h", "a", "r", "s", "e", "t", "=", "u", "t", "f", "-", "8">>,
     contentDisposition |-> Null, body |-> BufferFrom(phrase)]

\* ------------------------------------------------------ the password reset
\* expires.setMinutes(expires.getMinutes() + 5)
OtpMinutes == 5

\* the bounds of the password reset: the clock stops at MaxTime, at most
\* MaxOtps OTPs are issued and MaxResets reset-password requests are in
\* flight at a time
MaxTime == 7

MaxOtps == 3

MaxResets == 2

\* the email addresses of the accounts, and an address without an account
EmailOf(u) == IF u = 1 THEN <<"a", "@", "u", ".", "e", "d", "u">> ELSE <<"b", "@", "u", ".", "e", "d", "u">>

Emails == {EmailOf(u) : u \in Users}

NoAccountEmail == <<"n", "@", "u", ".", "e", "d", "u">>

\* DatabaseStorage.getUserByEmail: the users with that email
getUserByEmail(email) == {u \in Users : EmailOf(u) = email}

\* generateOTP: a number of six digits as a string; Math.random draws it
Otps == {NumberToString(100000), NumberToString(999999)}

\* hashPassword (./auth): the hash of a password, written hash(...)
hashPassword(password) == <<"h", "a", "s", "h", "(">> \o password \o <<")">>

\* the password column after registration: the hash of the password given
InitialPassword(u) == hashPassword(<<"s", "e", "c", "r", "e", "t">>)

NoAnswer == [op |-> "none", email |-> Undefined, otp |-> Undefined, status |-> 0]

IdleReset ==
    [pc |-> "idle", email |-> Undefined, otp |-> Undefined, newPassword |-> Undefined,
     issue |-> 0, user |-> NoUser, hashed |-> Undefined, status |-> 0]

\* the bounds of the other routes: rows inserted into each of the followers
\* and friend_requests tables, research groups created, members added
MaxRows == 2

MaxGroups == 1

MaxMembers == 1

IdleEdit ==
    [pc |-> "idle", op |-> "none", user |-> NoUser, id |-> 0, patch |-> <<>>, status |-> 0]

IdleMember ==
    [pc |-> "idle", op |-> "none", user |-> NoUser, groupId |-> 0, userId |-> 0, status |-> 0]

NoReply == [op |-> "none", user |-> NoUser, id |-> 0, status |-> 0]

\* who sends requests: the users signed in, and a client without a session
Callers == Users \cup {NoUser}

InitEdit == edits = [u \in Callers |-> IdleEdit]

InitSocial ==
    /\ followers = {}
    /\ followSeq = 0
    /\ friendRequests = {}
    /\ friendSeq = 0
    /\ researchGroups = {}
    /\ groupSeq = 0
    /\ groupMemberships = {}
    /\ memberSeq = 0
    /\ memberReqs = [u \in Callers |-> IdleMember]
    /\ reply = NoReply

InitAuth ==
    /\ now = 0
    /\ otpStore = <<>>
    /\ otpSeq = 0
    /\ devLog = [e \in Emails |-> <<>>]
    /\ users = [u \in Users |-> InitialPassword(u)]
    /\ answer = NoAnswer
    /\ resets = [s \in 1..MaxResets |-> IdleReset]

\* the locals of a handler that has not been called
IdleOther ==
    [req |-> IdleReq, pubsRead |-> <<>>, grouped |-> <<>>,
     outcome |-> NoOutcome, res |-> FreshRes]

Init ==
    /\ publications = {}
    /\ pubSeq = 0
    /\ req = IdleReq
    /\ pubsRead = <<>>
    /\ grouped = <<>>
    /\ outcome = NoOutcome
    /\ res = FreshRes
    /\ other = IdleOther
    /\ InitAuth
    /\ InitEdit
    /\ InitSocial

\* POST /api/publications by session user u with a body the schema accepts
\* (401 without a session; a body the schema rejects inserts nothing)
PostPublication(u, body) ==
    /\ u # NoUser
    /\ pubSeq < MaxPubs
    /\ publications' = publications \cup {NewPublication(body, u, pubSeq + 1)}
    /\ pubSeq' = pubSeq + 1
    /\ UNCHANGED <<req, pubsRead, grouped, outcome, res, other, authVars, editVars, socialVars>>

\* PUT /api/publications/:id by session user u with a body the partial
\* schema accepts: 401 without a session, 404 without the row, 403 for a
\* caller who is neither the owner nor an admin, else the update.  No
\* step of the specifications that take this action removes a row or changes
\* its owner, so the row
\* getPublication read is the row updatePublication changes; an update that
\* writes the values the row already has leaves the table as it is.
PutPublication(u, id, patch) ==
    /\ u # NoUser
    /\ \E p \in getPublication(id) :
          /\ ~(p.userId # u /\ ~IsAdmin(u))
          /\ publications' = (publications \ {p}) \cup {SetColumns(p, patch)}
          /\ publications' # publications
    /\ UNCHANGED <<pubSeq, req, pubsRead, grouped, outcome, res, other, authVars, editVars, socialVars>>

\* mutant of SummaryRequest: the handler without its isAuthenticated test
SummaryRequest_NoAuthCheck(u, format, filter) ==
    /\ req.pc = "idle"
    /\ req' = [pc |-> "fetch", user |-> u, format |-> format, filter |-> filter]
    /\ res' = FreshRes
    /\ UNCHANGED <<publications, pubSeq, pubsRead, grouped, outcome, other, authVars, editVars, socialVars>>

\* GET /api/publications/summary arrives: the 401 answer, or the query is
\* read and the handler awaits storage.getPublicationsByUser
SummaryRequest(u, format, filter) ==
    /\ req.pc = "idle"
    /\ IF u = NoUser
       THEN /\ req' = [pc |-> "done", user |-> u, format |-> format, filter |-> filter]
            /\ res' = SendStatus(401, <<"U", "n", "a", "u", "t", "h", "o", "r", "i", "z", "e", "d">>)
       ELSE /\ req' = [pc |-> "fetch", user |-> u, format |-> format, filter |-> filter]
            /\ res' = FreshRes
    /\ UNCHANGED <<publications, pubSeq, pubsRead, grouped, outcome, other, authVars, editVars, socialVars>>

\* the query of getPublicationsByUser runs
SummaryFetch ==
    /\ req.pc = "fetch"
    /\ pubsRead' = getPublicationsByUser(req.user)
    /\ req' = [req EXCEPT !.pc = "generate"]
    /\ UNCHANGED <<publications, pubSeq, grouped, outcome, res, other, authVars, editVars, socialVars>>

\* mutant of SendSummary: the file name is written without the extension
SendSummary_NoExtension(summary) ==
    [sent |-> TRUE, status |-> 200, contentType |-> summary.contentType,
     contentDisposition |-> <<"a", "t", "t", "a", "c", "h", "m", "e", "n", "t", ";", " ", "f", "i", "l", "e", "n", "a", "m", "e", "=", "\"", "p", "u", "b", "l", "i", "c", "a", "t", "i", "o", "n", "s", "_", "s", "u", "m", "m", "a", "r", "y", "\"">>,
     body |-> summary.content]

\* the headers and the body the handler writes for a summary
SendSummary(summary) ==
    [sent |-> TRUE, status |-> 200, contentType |-> summary.contentType,
     contentDisposition |->
         <<"a", "t", "t", "a", "c", "h", "m", "e", "n", "t", ";", " ", "f", "i", "l", "e", "n", "a", "m", "e", "=", "\"", "p", "u", "b", "l", "i", "c", "a", "t", "i", "o", "n", "s", "_", "s", "u", "m", "m", "a", "r", "y", ".">> \o summary.extension \o <<"\"">>,
     body |-> summary.content]

\* what becomes of the request when the async handler's promise rejects:
\* the handler has no try/catch and registers no error route, so either no
\* answer is ever written or the framework's error path answers 500.  The
\* record keeps the headers and the body the handler has set: on this path
\* it has set none.
RejectedRes(answered) ==
    IF answered
    THEN [sent |-> TRUE, status |-> 500, contentType |-> Null,
          contentDisposition |-> Null, body |-> Null]
    ELSE FreshRes

\* mutant of SummaryGenerate: the grouping sorts the list it is given in
\* place (publications.sort(...)) and leaves it in the order of the groups
SummaryGenerate_SortsInput ==
    /\ req.pc = "generate"
    /\ LET r == generatePublicationSummary(pubsRead, req.format, req.filter)
           m == groupPublications(pubsRead, req.filter)
       IN  /\ grouped' = m
           /\ pubsRead' = Flatten([g \in 1..Len(m) |-> m[g].pubs])
           /\ outcome' = r
           /\ IF r.threw = "none"
              THEN res' = SendSummary(r.summary)
              ELSE \E answered \in BOOLEAN : res' = RejectedRes(answered)
    /\ req' = [req EXCEPT !.pc = "done"]
    /\ UNCHANGED <<publications, pubSeq, other, authVars, editVars, socialVars>>

\* generatePublicationSummary runs and the handler writes the answer
SummaryGenerate ==
    /\ req.pc = "generate"
    /\ LET r == generatePublicationSummary(pubsRead, req.format, req.filter)
       IN  /\ grouped' = groupPublications(pubsRead, req.filter)
           /\ outcome' = r
           /\ IF r.threw = "none"
              THEN res' = SendSummary(r.summary)
              ELSE \E answered \in BOOLEAN : res' = RejectedRes(answered)
    /\ req' = [req EXCEPT !.pc = "done"]
    /\ UNCHANGED <<publications, pubSeq, pubsRead, other, authVars, editVars, socialVars>>

\* the request is over; the next one starts from fresh locals
SummaryClose ==
    /\ req.pc = "done"
    /\ req' = IdleReq
    /\ pubsRead' = <<>>
    /\ grouped' = <<>>
    /\ outcome' = NoOutcome
    /\ res' = FreshRes
    /\ UNCHANGED <<publications, pubSeq, other, authVars, editVars, socialVars>>

Next ==
    \/ \E u \in Users \cup {NoUser}, body \in InsertBodies : PostPublication(u, body)
    \/ \E u \in Users \cup {NoUser}, id \in 1..MaxPubs, patch \in UpdateBodies :
          PutPublication(u, id, patch)
    \/ \E u \in Users \cup {NoUser}, format \in Formats, filter \in Filters :
          SummaryRequest(u, format, filter)
    \/ SummaryFetch
    \/ SummaryGenerate
    \/ SummaryClose

Spec == Init /\ [][Next]_vars

\* ------------------------------------------ the requests of one account
\* The renderings are read byte by byte; they are checked on the requests of
\* one account, with one spelling of each formatter's format.
RenderFormats == { <<"W", "o", "r", "d">>, <<"w", "e", "b">> }

RenderFilters == { <<"y", "e", "a", "r">>, <<"t", "y", "p", "e">>, <<"a", "r", "e", "a">> }

NextRender ==
    \/ \E body \in InsertBodies : PostPublication(1, body)
    \/ \E id \in 1..MaxPubs, patch \in UpdateBodies : PutPublication(1, id, patch)
    \/ \E format \in RenderFormats, filter \in RenderFilters :
          SummaryRequest(1, format, filter)
    \/ SummaryFetch
    \/ SummaryGenerate
    \/ SummaryClose

SpecRender == Init /\ [][NextRender]_vars

\* ------------------------------------------- two requests at the same time
\* Each call of the summary handler has its own req, res and locals, and the
\* handler yields at its awaits; `other` is a second call in flight, taking
\* the same steps on its own locals.
OtherRequest(u, format, filter) ==
    /\ other.req.pc = "idle"
    /\ other' =
          IF u = NoUser
          THEN [other EXCEPT
                  !.req = [pc |-> "done", user |-> u, format |-> format, filter |-> filter],
                  !.res = SendStatus(401, <<"U", "n", "a", "u", "t", "h", "o", "r", "i", "z", "e", "d">>)]
          ELSE [other EXCEPT
                  !.req = [pc |-> "fetch", user |-> u, format |-> format, filter |-> filter],
                  !.res = FreshRes]
    /\ UNCHANGED <<publications, pubSeq, req, pubsRead, grouped, outcome, res, authVars, editVars, socialVars>>

OtherFetch ==
    /\ other.req.pc = "fetch"
    /\ other' = [other EXCEPT !.pubsRead = getPublicationsByUser(other.req.user),
                             !.req.pc = "generate"]
    /\ UNCHANGED <<publications, pubSeq, req, pubsRead, grouped, outcome, res, authVars, editVars, socialVars>>

OtherGenerate ==
    /\ other.req.pc = "generate"
    /\ LET r == generatePublicationSummary(other.pubsRead, other.req.format, other.req.filter)
       IN  \E answered \in BOOLEAN :
              other' = [other EXCEPT
                          !.grouped = groupPublications(other.pubsRead, other.req.filter),
                          !.outcome = r,
                          !.res = IF r.threw = "none" THEN SendSummary(r.summary)
                                  ELSE RejectedRes(answered),
                          !.req.pc = "done"]
    /\ UNCHANGED <<publications, pubSeq, req, pubsRead, grouped, outcome, res, authVars, editVars, socialVars>>

OtherClose ==
    /\ other.req.pc = "done"
    /\ other' = IdleOther
    /\ UNCHANGED <<publications, pubSeq, req, pubsRead, grouped, outcome, res, authVars, editVars, socialVars>>

SharedFormats == { <<"W", "o", "r", "d">> }

SharedFilters == { <<"y", "e", "a", "r">> }

NextShared ==
    \/ \E u \in Users, body \in InsertBodies : PostPublication(u, body)
    \/ \E u \in Users, id \in 1..MaxPubs, patch \in UpdateBodies : PutPublication(u, id, patch)
    \/ \E u \in Users, format \in SharedFormats, filter \in SharedFilters :
          SummaryRequest(u, format, filter)
    \/ SummaryFetch
    \/ SummaryGenerate
    \/ SummaryClose
    \/ \E u \in Users \cup {NoUser}, format \in SharedFormats, filter \in SharedFilters :
          OtherRequest(u, format, filter)
    \/ OtherFetch
    \/ OtherGenerate
    \/ OtherClose

SpecShared == Init /\ [][NextShared]_vars

\* ------------------------------------------------- the password reset routes
\* otpStore.delete(email)
MapDelete(store, email) == [e \in DOMAIN store \ {email} |-> store[e]]

\* mutant of storeOTP: an entry the email already has is kept
\* (if (!otpStore.has(email)) otpStore.set(...))
storeOTP_KeepFirst(store, t, seq, email, otp) ==
    IF email \in DOMAIN store THEN store
    ELSE [e \in DOMAIN store \cup {email} |->
             IF e = email THEN [otp |-> otp, expires |-> t + OtpMinutes, seq |-> seq]
             ELSE store[e]]

\* storeOTP at time t, as call number seq.  expires is a Date of millisecond
\* resolution, which tells the entries of different calls apart; the model
\* keeps the time in minutes and the number of the call beside it.
storeOTP(store, t, seq, email, otp) ==
    [e \in DOMAIN store \cup {email} |->
        IF e = email THEN [otp |-> otp, expires |-> t + OtpMinutes, seq |-> seq]
        ELSE store[e]]

\* mutant of verifyOTP: an expired entry is refused and left in the store
verifyOTP_KeepsExpired(store, t, email, otp) ==
    IF email \notin DOMAIN store THEN [ok |-> FALSE, store |-> store]
    ELSE IF t > store[email].expires
         THEN [ok |-> FALSE, store |-> store]
         ELSE [ok |-> store[email].otp = otp, store |-> store]

\* verifyOTP at time t: its result and the store it leaves
verifyOTP(store, t, email, otp) ==
    IF email \notin DOMAIN store THEN [ok |-> FALSE, store |-> store]
    ELSE IF t > store[email].expires
         THEN [ok |-> FALSE, store |-> MapDelete(store, email)]
         ELSE [ok |-> store[email].otp = otp, store |-> store]

\* time passes
Tick ==
    /\ now < MaxTime
    /\ now' = now + 1
    /\ UNCHANGED <<otpStore, otpSeq, devLog, users, answer, resets, pubVars, editVars, socialVars>>

\* POST /api/auth/forgot-password.  The handler awaits getUserByEmail before
\* it stores the OTP; no route changes an account's email, so the step is
\* taken at the time of the store.
ForgotPassword(email) ==
    /\ IF Falsy(email)
       THEN /\ answer' = [op |-> "forgot", email |-> email, otp |-> Undefined, status |-> 400]
            /\ UNCHANGED <<otpStore, otpSeq, devLog>>
       ELSE IF getUserByEmail(email) = {}
       THEN /\ answer' = [op |-> "forgot", email |-> email, otp |-> Undefined, status |-> 404]
            /\ UNCHANGED <<otpStore, otpSeq, devLog>>
       ELSE /\ otpSeq < MaxOtps
            /\ \E otp \in Otps :
                  /\ otpStore' = storeOTP(otpStore, now, otpSeq + 1, email, otp)
                  /\ devLog' = [devLog EXCEPT ![email] = Append(@, otp)]
            /\ otpSeq' = otpSeq + 1
            /\ answer' = [op |-> "forgot", email |-> email, otp |-> Undefined, status |-> 200]
    /\ UNCHANGED <<now, users, resets, pubVars, editVars, socialVars>>

\* POST /api/auth/verify-otp
VerifyOtp(email, otp) ==
    /\ IF Falsy(email) \/ Falsy(otp)
       THEN /\ answer' = [op |-> "verify", email |-> email, otp |-> otp, status |-> 400]
            /\ UNCHANGED otpStore
       ELSE LET v == verifyOTP(otpStore, now, email, otp)
            IN  /\ otpStore' = v.store
                /\ answer' = [op |-> "verify", email |-> email, otp |-> otp,
                              status |-> IF v.ok THEN 200 ELSE 400]
    /\ UNCHANGED <<now, otpSeq, devLog, users, resets, pubVars, editVars, socialVars>>

\* POST /api/auth/reset-password arrives as request s: the fields are
\* tested, verifyOTP is called and, if it accepts, the handler awaits
\* getUserByEmail.  issue keeps which entry verifyOTP read (its storedData).
ResetRequest(s, email, otp, newPassword) ==
    /\ resets[s].pc = "idle"
    /\ IF Falsy(email) \/ Falsy(otp) \/ Falsy(newPassword)
       THEN /\ resets' = [resets EXCEPT ![s] =
                  [IdleReset EXCEPT !.pc = "done", !.email = email, !.otp = otp,
                                    !.newPassword = newPassword, !.status = 400]]
            /\ UNCHANGED otpStore
       ELSE LET v == verifyOTP(otpStore, now, email, otp)
            IN  /\ otpStore' = v.store
                /\ resets' = [resets EXCEPT ![s] =
                      [IdleReset EXCEPT
                          !.pc = IF v.ok THEN "lookup" ELSE "done",
                          !.email = email, !.otp = otp, !.newPassword = newPassword,
                          !.issue = IF v.ok THEN otpStore[email].seq ELSE 0,
                          !.status = IF v.ok THEN 0 ELSE 400]]
    /\ UNCHANGED <<now, otpSeq, devLog, users, answer, pubVars, editVars, socialVars>>

\* getUserByEmail has answered: 404 without a user, else the handler awaits
\* hashPassword
ResetLookup(s) ==
    /\ resets[s].pc = "lookup"
    /\ LET found == getUserByEmail(resets[s].email)
       IN  resets' = [resets EXCEPT ![s] =
              IF found = {} THEN [@ EXCEPT !.pc = "done", !.status = 404]
              ELSE [@ EXCEPT !.pc = "hash", !.user = CHOOSE u \in found : TRUE]]
    /\ UNCHANGED <<now, otpStore, otpSeq, devLog, users, answer, pubVars, editVars, socialVars>>

\* hashPassword has answered: the handler awaits storage.updateUser
ResetHash(s) ==
    /\ resets[s].pc = "hash"
    /\ resets' = [resets EXCEPT ![s] =
          [@ EXCEPT !.pc = "update", !.hashed = hashPassword(resets[s].newPassword)]]
    /\ UNCHANGED <<now, otpStore, otpSeq, devLog, users, answer, pubVars, editVars, socialVars>>

\* updateUser has written the password: the handler deletes the OTP of the
\* email and answers 200
ResetFinish(s) ==
    /\ resets[s].pc = "update"
    /\ users' = [users EXCEPT ![resets[s].user] = resets[s].hashed]
    /\ otpStore' = MapDelete(otpStore, resets[s].email)
    /\ resets' = [resets EXCEPT ![s] = [@ EXCEPT !.pc = "done", !.status = 200]]
    /\ UNCHANGED <<now, otpSeq, devLog, answer, pubVars, editVars, socialVars>>

\* the request is over
ResetClose(s) ==
    /\ resets[s].pc = "done"
    /\ resets' = [resets EXCEPT ![s] = IdleReset]
    /\ UNCHANGED <<now, otpStore, otpSeq, devLog, users, answer, pubVars, editVars, socialVars>>

\* the requests of verify-otp and forgot-password over time
NextOtp ==
    \/ Tick
    \/ \E email \in Emails \cup {NoAccountEmail, Undefined} : ForgotPassword(email)
    \/ \E email \in Emails \cup {NoAccountEmail, Undefined}, otp \in Otps \cup {<<>>} :
          VerifyOtp(email, otp)

SpecOtp == Init /\ [][NextOtp]_vars

NewPasswords == { <<"p", "1">> }

\* reset-password requests in flight together with the other two routes
NextReset ==
    \/ \E email \in Emails : ForgotPassword(email)
    \/ \E email \in Emails, otp \in Otps : VerifyOtp(email, otp)
    \/ \E s \in 1..MaxResets, email \in Emails \cup {Undefined}, otp \in Otps,
          newPassword \in NewPasswords : ResetRequest(s, email, otp, newPassword)
    \/ \E s \in 1..MaxResets : ResetLookup(s)
    \/ \E s \in 1..MaxResets : ResetHash(s)
    \/ \E s \in 1..MaxResets : ResetFinish(s)
    \/ \E s \in 1..MaxResets : ResetClose(s)

SpecReset == Init /\ [][NextReset]_vars

\* the three routes with one reset-password request in flight at a time
NextOneReset ==
    \/ \E email \in Emails : ForgotPassword(email)
    \/ \E email \in Emails, otp \in Otps : VerifyOtp(email, otp)
    \/ \E email \in Emails, otp \in Otps, newPassword \in NewPasswords :
          ResetRequest(1, email, otp, newPassword)
    \/ ResetLookup(1)
    \/ ResetHash(1)
    \/ ResetFinish(1)
    \/ ResetClose(1)

SpecOneReset == Init /\ [][NextOneReset]_vars

\* ================================================================= claims
\* the pipeline has run for an authenticated request
Generated == req.pc = "done" /\ req.user # NoUser

IsString(v) == v \notin {Null, Undefined}

Keys(m) == {m[i].key : i \in 1..Len(m)}

\* the publications of the group keyed k (none when there is no such group)
GroupOf(m, k) == IF MapHas(m, k) THEN m[MapIndex(m, k)].pubs ELSE <<>>

Elems(s) == {s[i] : i \in 1..Len(s)}

DistinctKeys(m) == \A i, j \in 1..Len(m) : i # j => m[i].key # m[j].key

\* C1: with filter "year" the group keys are exactly the distinct
\* stringified years of the publications read, one group per key, and the
\* groups iterate in descending numeric year order.
C1_YearGroupsDescending ==
    (Generated /\ req.filter = <<"y", "e", "a", "r">>) =>
        /\ Keys(grouped) = {NumberToString(pubsRead[i].year) : i \in 1..Len(pubsRead)}
        /\ DistinctKeys(grouped)
        /\ \A i, j \in 1..Len(grouped) : i < j =>
              \A p \in Elems(grouped[i].pubs), q \in Elems(grouped[j].pubs) :
                  /\ grouped[i].key = NumberToString(p.year)
                  /\ grouped[j].key = NumberToString(q.year)
                  /\ p.year > q.year

\* C1 witness: a year summary of two groups whose keys differ in length and
\* whose order differs from the order the publications were read in
C1_Witness ==
    /\ Generated /\ req.filter = <<"y", "e", "a", "r">>
    /\ Len(grouped) = 2
    /\ Len(grouped[1].key) # Len(grouped[2].key)
    /\ pubsRead[1].year < pubsRead[Len(pubsRead)].year

\* C2 as stated: every filter string other than "year", "type" and "area"
\* gives exactly one group, keyed "All Publications", holding every
\* publication read in the order read.
C2_AlwaysOneGroup ==
    (Generated /\ IsString(req.filter)
        /\ req.filter \notin {<<"y", "e", "a", "r">>, <<"t", "y", "p", "e">>, <<"a", "r", "e", "a">>}) =>
        grouped = <<[key |-> <<"A", "l", "l", " ", "P", "u", "b", "l", "i", "c", "a", "t", "i", "o", "n", "s">>, pubs |-> pubsRead]>>

\* C2 amended: for such a filter a non-empty list gives exactly the one
\* group "All Publications" holding the list in order, and the empty list
\* gives no group.
C2_OneGroupUnlessEmpty ==
    (Generated /\ IsString(req.filter)
        /\ req.filter \notin {<<"y", "e", "a", "r">>, <<"t", "y", "p", "e">>, <<"a", "r", "e", "a">>}) =>
        IF pubsRead = <<>> THEN grouped = <<>>
        ELSE grouped = <<[key |-> <<"A", "l", "l", " ", "P", "u", "b", "l", "i", "c", "a", "t", "i", "o", "n", "s">>, pubs |-> pubsRead]>>

C2_Witness ==
    /\ Generated /\ req.filter = <<"Y", "e", "a", "r">>
    /\ Len(pubsRead) >= 2
    /\ pubsRead[1].year # pubsRead[2].year
    /\ Len(grouped) = 1

SupportedFormats == {<<"p", "d", "f">>, <<"w", "o", "r", "d">>, <<"w", "e", "b">>}

\* C3: a format string that lower-cased is none of "pdf", "word", "web"
\* makes generatePublicationSummary fail with the unsupported-format error
\* and no artifact: no content, content type or extension is produced and
\* none reaches the response.
C3_UnsupportedFormatFails ==
    (Generated /\ IsString(req.format)
        /\ ToLowerCase(req.format) \notin SupportedFormats) =>
        /\ outcome.threw = "Error"
        /\ outcome.message = <<"U", "n", "s", "u", "p", "p", "o", "r", "t", "e", "d", " ", "f", "o", "r", "m", "a", "t", ":", " ">> \o req.format
        /\ outcome.summary = NoSummary
        /\ res.body = Null
        /\ res.contentDisposition = Null

C3_Witness ==
    /\ Generated /\ req.format = <<"x", "m", "l">>
    /\ outcome.threw = "Error"
    /\ Len(grouped) >= 1

\* C4: when the pipeline fails with the unsupported-format error the
\* handler answers the request with a 4xx status.
C4_UnsupportedFormatAnswered4xx ==
    (Generated /\ outcome.threw = "Error") =>
        (res.sent /\ res.status \in 400..499)

\* C5: for an authenticated request, whatever format and filter it carries
\* or omits, the pipeline returns an artifact or fails with the
\* unsupported-format error, and with nothing else.
C5_NoOtherFailure ==
    Generated =>
        \/ outcome.threw = "none"
        \/ /\ outcome.threw = "Error"
           /\ SubSeq(outcome.message, 1, 20) = <<"U", "n", "s", "u", "p", "p", "o", "r", "t", "e", "d", " ", "f", "o", "r", "m", "a", "t", ":", " ">>

\* C6: format "pdf" in any letter case gives content type application/pdf
\* and extension pdf, with the content bytes format "word" gives for the
\* same publications and filter.
C6_PdfLabelsWordBytes ==
    (Generated /\ IsString(req.format) /\ ToLowerCase(req.format) = <<"p", "d", "f">>) =>
        /\ outcome.threw = "none"
        /\ outcome.summary.contentType = <<"a", "p", "p", "l", "i", "c", "a", "t", "i", "o", "n", "/", "p", "d", "f">>
        /\ outcome.summary.extension = <<"p", "d", "f">>
        /\ outcome.summary.content =
              generatePublicationSummary(pubsRead, <<"w", "o", "r", "d">>, req.filter).summary.content

C6_Witness ==
    /\ Generated /\ req.format = <<"P", "D", "F">>
    /\ outcome.threw = "none"
    /\ Len(grouped) = 2
    /\ \E i \in 1..Len(pubsRead) : ~Falsy(pubsRead[i].doi)

\* C7: format "word" in any letter case gives the OOXML content type and
\* extension docx with the plain-text formatter's output as content; format
\* "web" in any letter case gives text/html and extension html with the
\* HTML formatter's output as content.
C7_WordAndWebArtifacts ==
    /\ (Generated /\ IsString(req.format) /\ ToLowerCase(req.format) = <<"w", "o", "r", "d">>) =>
          /\ outcome.threw = "none"
          /\ outcome.summary.contentType =
                <<"a", "p", "p", "l", "i", "c", "a", "t", "i", "o", "n", "/", "v", "n", "d", ".", "o", "p", "e", "n", "x", "m", "l", "f", "o", "r", "m", "a", "t", "s", "-", "o", "f", "f", "i", "c", "e", "d", "o", "c", "u", "m", "e", "n", "t", ".", "w", "o", "r", "d", "p", "r", "o", "c", "e", "s", "s", "i", "n", "g", "m", "l", ".", "d", "o", "c", "u", "m", "e", "n", "t">>
          /\ outcome.summary.extension = <<"d", "o", "c", "x">>
          /\ outcome.summary.content = BufferFrom(formatSummaryText(grouped))
    /\ (Generated /\ IsString(req.format) /\ ToLowerCase(req.format) = <<"w", "e", "b">>) =>
          /\ outcome.threw = "none"
          /\ outcome.summary.contentType = <<"t", "e", "x", "t", "/", "h", "t", "m", "l">>
          /\ outcome.summary.extension = <<"h", "t", "m", "l">>
          /\ outcome.summary.content = BufferFrom(generateHTML(grouped))

C7_Witness ==
    /\ Generated /\ req.format = <<"w", "E", "b">>
    /\ outcome.summary.extension = <<"h", "t", "m", "l">>
    /\ Len(grouped) = 2

\* C8 as stated: with filter "area" a publication whose research area is
\* absent (null) is in the group keyed "Uncategorized", and a publication
\* whose research area is present is in the group keyed by that area.
C8_AbsentOrOwnArea ==
    (Generated /\ req.filter = <<"a", "r", "e", "a">>) =>
        \A i \in 1..Len(pubsRead) :
            LET p == pubsRead[i]
            IN  IF p.researchArea = Null
                THEN p \in Elems(GroupOf(grouped, <<"U", "n", "c", "a", "t", "e", "g", "o", "r", "i", "z", "e", "d">>))
                ELSE p \in Elems(GroupOf(grouped, p.researchArea))

\* C8 amended: with filter "area" a publication whose research area is
\* absent or the empty string is in the group keyed "Uncategorized", and a
\* publication with a non-empty research area is in the group keyed by it.
C8_EmptyOrAbsentUncategorized ==
    (Generated /\ req.filter = <<"a", "r", "e", "a">>) =>
        \A i \in 1..Len(pubsRead) :
            LET p == pubsRead[i]
            IN  IF p.researchArea \in {Null, <<>>}
                THEN p \in Elems(GroupOf(grouped, <<"U", "n", "c", "a", "t", "e", "g", "o", "r", "i", "z", "e", "d">>))
                ELSE p \in Elems(GroupOf(grouped, p.researchArea))

C8_Witness ==
    /\ Generated /\ req.filter = <<"a", "r", "e", "a">>
    /\ \E i, j \in 1..Len(pubsRead) :
          /\ pubsRead[i].researchArea = <<>>
          /\ pubsRead[j].researchArea = Null
    /\ Len(GroupOf(grouped, <<"U", "n", "c", "a", "t", "e", "g", "o", "r", "i", "z", "e", "d">>)) = 2

RECURSIVE SumOfSizes(_)
SumOfSizes(m) == IF m = <<>> THEN 0 ELSE Len(Head(m).pubs) + SumOfSizes(Tail(m))

\* the places (group, position) at which publication p occurs
Places(m, p) ==
    {gj \in {<<g, j>> : g \in 1..Len(m), j \in 1..MaxPubs} :
        gj[2] <= Len(m[gj[1]].pubs) /\ m[gj[1]].pubs[gj[2]] = p}

\* C9: the grouping is a partition of the publications read: each occurs in
\* exactly one group and once, no group is empty, and the sizes of the
\* groups add up to the length of the list.
C9_Partition ==
    Generated =>
        /\ \A i \in 1..Len(pubsRead) : Cardinality(Places(grouped, pubsRead[i])) = 1
        /\ \A g \in 1..Len(grouped) : grouped[g].pubs # <<>>
        /\ SumOfSizes(grouped) = Len(pubsRead)

C9_Witness ==
    /\ Generated /\ req.filter = <<"t", "y", "p", "e">>
    /\ Len(pubsRead) = 2
    /\ Len(grouped) = 1

\* the position of publication p in the list read
PositionRead(p) == CHOOSE i \in 1..Len(pubsRead) : pubsRead[i] = p

\* C10: within every group the publications keep their relative order from
\* the list read, for every filter.
C10_EncounterOrder ==
    Generated =>
        \A g \in 1..Len(grouped) :
            \A j, k \in 1..Len(grouped[g].pubs) : j < k =>
                /\ grouped[g].pubs[j] \in Elems(pubsRead)
                /\ grouped[g].pubs[k] \in Elems(pubsRead)
                /\ PositionRead(grouped[g].pubs[j]) < PositionRead(grouped[g].pubs[k])

C10_Witness ==
    /\ Generated /\ req.filter = <<"a", "r", "e", "a">>
    /\ \E g \in 1..Len(grouped) :
          /\ Len(grouped[g].pubs) = 2
          /\ grouped[g].pubs[1].title # grouped[g].pubs[2].title

\* a < b on strings: lexicographic comparison of the code units
CodeUnitLess(a, b) == LexCompare(BufferFrom(a), BufferFrom(b)) < 0

\* C11 as stated: for every filter other than "year" the groups iterate in
\* lexicographically ascending order of their key strings.
C11_LexicographicAscending ==
    (Generated /\ req.filter # <<"y", "e", "a", "r">>) =>
        \A i, j \in 1..Len(grouped) : i < j =>
            CodeUnitLess(grouped[i].key, grouped[j].key)

\* C11 amended: for every filter other than "year" the groups iterate in
\* ascending order of localeCompare on their keys: the letters compared
\* without regard to case first, and a lower-case letter before its capital
\* when the keys differ in case only.
C11_LocaleCompareAscending ==
    (Generated /\ req.filter # <<"y", "e", "a", "r">>) =>
        \A i, j \in 1..Len(grouped) : i < j =>
            /\ LocaleCompare(grouped[i].key, grouped[j].key).val < 0
            /\ LET a == ToLowerCase(grouped[i].key)
                   b == ToLowerCase(grouped[j].key)
               IN  IF a = b THEN CodeUnitLess(grouped[j].key, grouped[i].key)
                   ELSE CodeUnitLess(a, b)

\* C11 witness: a type summary whose two keys differ in case only
C11_Witness ==
    /\ Generated /\ req.filter = <<"t", "y", "p", "e">>
    /\ Len(grouped) = 2
    /\ grouped[1].key = <<"b", "o", "o", "k">>
    /\ grouped[2].key = <<"B", "o", "o", "k">>

Occurrences(b, m) ==
    {i \in 1..(Len(b) - Len(m) + 1) : b[i] = m[1] /\ SubSeq(b, i, i + Len(m) - 1) = m}

\* the k-th smallest member of a set of positions
Nth(S, k) == CHOOSE i \in S : Cardinality({j \in S : j < i}) = k - 1

\* the pieces of b between the positions `cuts`, each cut w bytes wide, the
\* piece before the first cut and the piece after the last one included
Pieces(b, cuts, w) ==
    [k \in 1..(Cardinality(cuts) + 1) |->
        SubSeq(b,
               IF k = 1 THEN 1 ELSE Nth(cuts, k - 1) + w,
               IF k = Cardinality(cuts) + 1 THEN Len(b) ELSE Nth(cuts, k) - 1)]

\* the lines of a text: the pieces between its line feeds
Lines(b) == Pieces(b, {i \in 1..Len(b) : b[i] = 10}, 1)

\* the paragraphs of a text: the runs of lines between blank lines
Paragraphs(b) ==
    LET ls == Lines(b)
        blank == {i \in 1..Len(ls) : ls[i] = <<>>}
    IN  SelectSeq(Pieces(ls, blank, 1), LAMBDA para : para # <<>>)

\* the entries of the text rendering: its paragraphs but the title and the
\* group headings (a key and its underline)
TextEntries(b) == SelectSeq(Paragraphs(b), LAMBDA para : Len(para) >= 3)

\* the entries of the HTML rendering: from one <div class="publication"> up
\* to the next, or to the end of the document
HtmlEntries(b) ==
    LET starts == Occurrences(b, BufferFrom(<<"<", "d", "i", "v", " ", "c", "l", "a", "s", "s", "=", "\"", "p", "u", "b", "l", "i", "c", "a", "t", "i", "o", "n", "\"", ">">>))
    IN  Tail(Pieces(b, starts, 0))

StartsWith(b, m) == Len(b) >= Len(m) /\ SubSeq(b, 1, Len(m)) = m

\* the publications of a grouping in the order they are rendered
RECURSIVE Rendered(_)
Rendered(m) == IF m = <<>> THEN <<>> ELSE Head(m).pubs \o Rendered(Tail(m))

IsHtml == outcome.summary.extension = <<"h", "t", "m", "l">>

\* the targets of the links of an HTML fragment: what follows <a href=" up
\* to the closing quote
LinkTargets(b) ==
    {LET quotes == {q \in (i + 9)..Len(b) : b[q] = 34}
     IN  SubSeq(b, i + 9, Nth(quotes, 1) - 1) :
        i \in Occurrences(b, BufferFrom(<<"<", "a", " ", "h", "r", "e", "f", "=", "\"">>))}

\* the entry shows the DOI of publication p: in the
\* text one line "DOI: {doi}"; in HTML one link, to https://doi.org/{doi},
\* labelled "DOI: {doi}"
ShowsDoi(entry, p) ==
    IF IsHtml
    THEN /\ LinkTargets(entry) = {BufferFrom(<<"h", "t", "t", "p", "s", ":", "/", "/", "d", "o", "i", ".", "o", "r", "g", "/">> \o p.doi)}
         /\ Cardinality(Occurrences(entry, BufferFrom(<<"<", "a", " ", "h", "r", "e", "f", "=", "\"">>))) = 1
         /\ Occurrences(entry, BufferFrom(<<"D", "O", "I", ":", " ">> \o p.doi \o <<"<", "/", "a", ">">>)) # {}
    ELSE Cardinality({l \in 1..Len(entry) : StartsWith(entry[l], BufferFrom(<<"D", "O", "I", ":">>))}) = 1
         /\ \E l \in 1..Len(entry) : entry[l] = BufferFrom(<<"D", "O", "I", ":", " ">> \o p.doi)

\* the entry has no DOI line and no link
ShowsNoDoi(entry) ==
    IF IsHtml
    THEN /\ Occurrences(entry, BufferFrom(<<"<", "a", " ">>)) = {}
         /\ Occurrences(entry, BufferFrom(<<"D", "O", "I", ":">>)) = {}
    ELSE \A l \in 1..Len(entry) : ~StartsWith(entry[l], BufferFrom(<<"D", "O", "I", ":">>))

Entries == IF IsHtml THEN HtmlEntries(res.body) ELSE TextEntries(res.body)

\* C13 as stated: in the text and in the HTML rendering there is one entry
\* per publication; the entry of a publication with no DOI (doi null) has no
\* "DOI:" line or link, and the entry of a publication with a DOI has it, in
\* HTML as a link whose target is https://doi.org/ followed by the DOI.
C13_DoiShownIffNotNull ==
    (Generated /\ outcome.threw = "none") =>
        LET entries == Entries
            pubs == Rendered(grouped)
        IN  /\ Len(entries) = Len(pubs)
            /\ \A k \in 1..Len(entries) :
                  IF pubs[k].doi = Null
                  THEN ShowsNoDoi(entries[k]) ELSE ShowsDoi(entries[k], pubs[k])

\* C13 amended: the same with "no DOI" read as a DOI that is absent or the
\* empty string, and "a DOI" as a non-empty one.
C13_DoiShownIffNotEmpty ==
    (Generated /\ outcome.threw = "none") =>
        LET entries == Entries
            pubs == Rendered(grouped)
        IN  /\ Len(entries) = Len(pubs)
            /\ \A k \in 1..Len(entries) :
                  IF pubs[k].doi \in {Null, <<>>}
                  THEN ShowsNoDoi(entries[k]) ELSE ShowsDoi(entries[k], pubs[k])

\* C13 witness: an HTML summary of a publication with a DOI, one whose DOI
\* is the empty string and one of them rendered after the other
C13_Witness ==
    /\ Generated /\ outcome.threw = "none" /\ IsHtml
    /\ Len(Entries) = 2
    /\ \E i, j \in 1..2 :
          /\ Rendered(grouped)[i].doi = <<>>
          /\ Rendered(grouped)[j].doi = <<"1", "0", ".", "1", "/", "x", "y", "z">>

\* C14: an empty publication list gives an empty grouped mapping whatever
\* the filter, and with a supported format the pipeline returns an artifact
\* holding the summary title and no group section: the text is the title
\* line and a blank line; the HTML has the <h1> title, no <h2> and no
\* publication block.
C14_EmptyListEmptySummary ==
    (Generated /\ pubsRead = <<>>) =>
        /\ grouped = <<>>
        /\ (IsString(req.format) /\ ToLowerCase(req.format) \in SupportedFormats) =>
              /\ outcome.threw = "none"
              /\ res.body = outcome.summary.content
              /\ IF IsHtml
                 THEN /\ Occurrences(res.body, BufferFrom(<<"<", "h", "1", ">", "P", "u", "b", "l", "i", "c", "a", "t", "i", "o", "n", "s", " ", "S", "u", "m", "m", "a", "r", "y", "<", "/", "h", "1", ">">>)) # {}
                      /\ Occurrences(res.body, BufferFrom(<<"<", "h", "2">>)) = {}
                      /\ HtmlEntries(res.body) = <<>>
                 ELSE Lines(res.body) = <<BufferFrom(<<"P", "u", "b", "l", "i", "c", "a", "t", "i", "o", "n", "s", " ", "S", "u", "m", "m", "a", "r", "y">>), <<>>, <<>>>>

\* C14 witness: an HTML summary for an account without publications while
\* the table holds another account's
C14_Witness ==
    /\ Generated /\ pubsRead = <<>> /\ publications # {}
    /\ req.filter = <<"a", "r", "e", "a">>
    /\ outcome.threw = "none" /\ IsHtml

\* the summary of a call was built from the caller's publications only, and
\* so were the rows it read
OwnOnly(h) ==
    (h.req.pc \in {"generate", "done"} /\ h.req.user # NoUser) =>
        /\ \A i \in 1..Len(h.pubsRead) : h.pubsRead[i].userId = h.req.user
        /\ h.req.pc = "done" => Elems(Rendered(h.grouped)) = Elems(h.pubsRead)

First == [req |-> req, pubsRead |-> pubsRead, grouped |-> grouped,
          outcome |-> outcome, res |-> res]

FirstNext == [req |-> req', pubsRead |-> pubsRead', grouped |-> grouped',
              outcome |-> outcome', res |-> res']

\* the step h to g is the read of a call, and what it reads is every
\* publication the table holds for the caller
ReadsAllOwn(h, g) ==
    (h.req.pc = "fetch" /\ g.req.pc = "generate") =>
        Elems(g.pubsRead) = {p \in publications : p.userId = h.req.user}

\* C15: whatever summary requests and publication writes of the accounts
\* interleave, a call reads exactly the publications the table holds for its
\* caller at the time of the read, and the summary it returns is built from
\* exactly these: no publication of another account is in it.
C15_OwnPublicationsOnly ==
    /\ [](OwnOnly(First) /\ OwnOnly(other))
    /\ [][ReadsAllOwn(First, FirstNext) /\ ReadsAllOwn(other, other')]_vars

\* C15 witness: two calls of different accounts are answered, each with a
\* summary of the caller's publications, and one account's publications
\* have changed since its call read them
C15_Witness ==
    /\ Generated /\ other.req.pc = "done"
    /\ other.req.user \notin {NoUser, req.user}
    /\ outcome.threw = "none" /\ other.outcome.threw = "none"
    /\ pubsRead # <<>> /\ other.pubsRead # <<>>
    /\ getPublicationsByUser(other.req.user) # other.pubsRead

\* the lines the text rendering is to have for one publication
EntryLines(p) ==
    <<p.title,
      <<"A", "u", "t", "h", "o", "r", "s", ":", " ">> \o p.authors,
      p.venue \o <<",", " ">> \o NumberToString(p.year)>>
    \o (IF p.doi \in {Null, <<>>} THEN <<>> ELSE <<<<"D", "O", "I", ":", " ">> \o p.doi>>)
    \o <<<<>>>>

\* the lines the text rendering is to have for one group
SectionLines(e) ==
    <<e.key, [i \in 1..Len(e.key) |-> "-"], <<>>>>
    \o Flatten([j \in 1..Len(e.pubs) |-> EntryLines(e.pubs[j])])

Contains(b, s) == Occurrences(b, BufferFrom(s)) # {}

\* the sections of the HTML rendering: from one <h2> up to the next, or to
\* the end of the document
HtmlSections(b) == Tail(Pieces(b, Occurrences(b, BufferFrom(<<"<", "h", "2">>)), 0))

\* the block is the block of publication p
BlockOf(block, p) ==
    /\ Contains(block, <<"<", "d", "i", "v", " ", "c", "l", "a", "s", "s", "=", "\"", "t", "i", "t", "l", "e", "\"", ">">> \o p.title \o <<"<", "/", "d", "i", "v", ">">>)
    /\ Contains(block, p.authors \o <<"<", "b", "r", ">">>)
    /\ Contains(block, p.venue \o <<",", " ">> \o NumberToString(p.year))

\* the example: publications A (2023, no DOI) and B (2021, DOI 10.1/xyz)
ExampleRead ==
    /\ Len(pubsRead) = 2
    /\ \E i, j \in 1..2 :
          /\ pubsRead[i].title = <<"A">> /\ pubsRead[i].year = 2023 /\ pubsRead[i].doi = Null
          /\ pubsRead[j].title = <<"B">> /\ pubsRead[j].year = 2021
          /\ pubsRead[j].doi = <<"1", "0", ".", "1", "/", "x", "y", "z">>

\* C17: the HTML rendering has exactly one <h2> per group, holding the
\* group key, in the iteration order of the grouping, each followed by one
\* block per publication of the group in the group's order; and for
\* publications A (2023, no DOI) and B (2021, DOI 10.1/xyz), filter "year"
\* and format "web" it has the sections "2023" then "2021", A under 2023
\* without a link and B under 2021 with a link to https://doi.org/10.1/xyz.
C17_HtmlSections ==
    (Generated /\ outcome.threw = "none" /\ IsHtml) =>
        LET secs == HtmlSections(res.body)
        IN  /\ Len(secs) = Len(grouped)
            /\ \A g \in 1..Len(secs) :
                  LET blocks == HtmlEntries(secs[g])
                  IN  /\ StartsWith(secs[g], BufferFrom(<<"<", "h", "2", ">">> \o grouped[g].key \o <<"<", "/", "h", "2", ">">>))
                      /\ Len(blocks) = Len(grouped[g].pubs)
                      /\ \A k \in 1..Len(blocks) : BlockOf(blocks[k], grouped[g].pubs[k])
            /\ (ExampleRead /\ req.filter = <<"y", "e", "a", "r">> /\ req.format = <<"w", "e", "b">>) =>
                  /\ Len(secs) = 2
                  /\ StartsWith(secs[1], BufferFrom(<<"<", "h", "2", ">", "2", "0", "2", "3", "<", "/", "h", "2", ">">>))
                  /\ Contains(secs[1], <<"<", "d", "i", "v", " ", "c", "l", "a", "s", "s", "=", "\"", "t", "i", "t", "l", "e", "\"", ">", "A", "<", "/", "d", "i", "v", ">">>)
                  /\ LinkTargets(secs[1]) = {}
                  /\ ~Contains(secs[1], <<"D", "O", "I">>)
                  /\ StartsWith(secs[2], BufferFrom(<<"<", "h", "2", ">", "2", "0", "2", "1", "<", "/", "h", "2", ">">>))
                  /\ Contains(secs[2], <<"<", "d", "i", "v", " ", "c", "l", "a", "s", "s", "=", "\"", "t", "i", "t", "l", "e", "\"", ">", "B", "<", "/", "d", "i", "v", ">">>)
                  /\ LinkTargets(secs[2]) = {BufferFrom(<<"h", "t", "t", "p", "s", ":", "/", "/", "d", "o", "i", ".", "o", "r", "g", "/", "1", "0", ".", "1", "/", "x", "y", "z">>)}

\* C17 witness: the example, with B inserted after A so that the order of
\* the sections is not the order the publications were read in
C17_Witness ==
    /\ Generated /\ outcome.threw = "none" /\ IsHtml
    /\ ExampleRead /\ req.filter = <<"y", "e", "a", "r">> /\ req.format = <<"w", "e", "b">>
    /\ pubsRead[1].title = <<"B">>

\* the step is the call of generatePublicationSummary by the handler
PipelineStep == req.pc = "generate" /\ req'.pc = "done"

\* C18: the call of generatePublicationSummary, whether it returns an
\* artifact or fails, leaves the list it was given and the publications in
\* it as they were, and changes nothing that is stored or that belongs to
\* another request: the publications table, the time of the last insert,
\* the users table, the OTP store and the locals of a second request stay
\* the same.
C18_NoSideEffects ==
    [][PipelineStep =>
          /\ pubsRead' = pubsRead
          /\ publications' = publications
          /\ pubSeq' = pubSeq
          /\ other' = other
          /\ users' = users
          /\ otpStore' = otpStore]_vars

\* C18 witness: the pipeline has failed on a list of two publications that
\* it grouped in another order than it was given them in, and the list is
\* still in the order of the read
C18_Witness ==
    /\ Generated /\ outcome.threw = "Error"
    /\ req.filter = <<"y", "e", "a", "r">>
    /\ Len(pubsRead) = 2 /\ Len(grouped) = 2
    /\ grouped[1].pubs[1] = pubsRead[2]
    /\ pubsRead = getPublicationsByUser(req.user)

\* C19: when the pipeline returns an artifact the handler answers with the
\* artifact's bytes as body, Content-Type the artifact's content type and
\* Content-Disposition attachment; filename="publications_summary.{ext}"
\* with the artifact's extension; when the pipeline fails the handler
\* writes no Content-Type, no Content-Disposition and no body.
C19_HeadersAndBody ==
    Generated =>
        IF outcome.threw = "none"
        THEN /\ res.sent /\ res.status = 200
             /\ res.body = outcome.summary.content
             /\ res.contentType = outcome.summary.contentType
             /\ res.contentDisposition =
                   <<"a", "t", "t", "a", "c", "h", "m", "e", "n", "t", ";", " ", "f", "i", "l", "e", "n", "a", "m", "e", "=", "\"", "p", "u", "b", "l", "i", "c", "a", "t", "i", "o", "n", "s", "_", "s", "u", "m", "m", "a", "r", "y", ".">>
                   \o outcome.summary.extension \o <<"\"">>
             /\ outcome.summary.extension \in {<<"p", "d", "f">>, <<"d", "o", "c", "x">>, <<"h", "t", "m", "l">>}
        ELSE /\ res.contentType = Null
             /\ res.contentDisposition = Null
             /\ res.body = Null

\* C19 witness: a Word summary of a publication has been sent as the
\* attachment publications_summary.docx
C19_Witness ==
    /\ Generated /\ outcome.threw = "none"
    /\ pubsRead # <<>>
    /\ res.sent /\ res.body # Null
    /\ res.contentDisposition = <<"a", "t", "t", "a", "c", "h", "m", "e", "n", "t", ";", " ", "f", "i", "l", "e", "n", "a", "m", "e", "=", "\"", "p", "u", "b", "l", "i", "c", "a", "t", "i", "o", "n", "s", "_", "s", "u", "m", "m", "a", "r", "y", ".", "d", "o", "c", "x", "\"">>

\* C20: every row of the publications table has a year of four digits.
C20_FourDigitYears ==
    \A p \in publications : p.year \in 1000..9999

\* the summary request of a caller without a session has been answered
Refused == req.pc = "done" /\ req.user = NoUser

\* C21 as stated: a summary request without a session is answered 401
\* before any publication is read, grouped or rendered, and no artifact, no
\* Content-Type and no Content-Disposition header is sent.
C21_RefusedWithoutHeaders ==
    Refused =>
        /\ res.sent /\ res.status = 401
        /\ pubsRead = <<>> /\ grouped = <<>> /\ outcome = NoOutcome
        /\ res.contentType = Null
        /\ res.contentDisposition = Null

\* C21 amended: a summary request without a session is answered 401 before
\* any publication is read, grouped or rendered; the answer is the status
\* text "Unauthorized" as text/plain, with no Content-Disposition header
\* and no artifact.
C21_RefusedBeforeRead ==
    Refused =>
        /\ res.sent /\ res.status = 401
        /\ pubsRead = <<>> /\ grouped = <<>> /\ outcome = NoOutcome
        /\ res.contentType = <<"t", "e", "x", "t", "/", "p", "l", "a", "i", "n", ";", " ", "c", "h", "a", "r", "s", "e", "t", "=", "u", "t", "f", "-", "8">>
        /\ res.body = BufferFrom(<<"U", "n", "a", "u", "t", "h", "o", "r", "i", "z", "e", "d">>)
        /\ res.contentDisposition = Null

\* C21 witness: a request for a PDF summary without a session has been
\* answered while the table holds publications
C21_Witness ==
    /\ Refused /\ res.status = 401
    /\ req.format = <<"p", "d", "f">>
    /\ publications # {}

\* reset-password request s has been answered 200
ResetDone(s) == resets[s].pc = "done" /\ resets[s].status = 200

\* C22: an OTP issued for an email authorizes at most one successful
\* password reset: no two reset-password requests are answered 200 on the
\* same stored OTP of the same email, however they interleave.
C22_OneResetPerOtp ==
    \A s, t \in 1..MaxResets :
        (s # t /\ ResetDone(s) /\ ResetDone(t) /\ resets[s].email = resets[t].email)
            => resets[s].issue # resets[t].issue

\* C25: a reset-password request that finishes never removes a newer OTP:
\* one that forgot-password stored for the email after the OTP the request
\* verified, while the request was in progress, stays in the store as it is.
C25_NewerOtpKept ==
    [][\A s \in 1..MaxResets :
          (/\ resets[s].pc = "update" /\ resets'[s].pc = "done"
           /\ resets[s].email \in DOMAIN otpStore
           /\ otpStore[resets[s].email].seq # resets[s].issue)
              => /\ resets[s].email \in DOMAIN otpStore'
                 /\ otpStore'[resets[s].email] = otpStore[resets[s].email]]_vars

\* the step is the answer of a verify-otp request that names an email and
\* an OTP: the handler has called verifyOTP
VerifyStep ==
    /\ answer'.op = "verify" /\ now' = now /\ resets' = resets
    /\ answer'.email \notin {Undefined, <<>>}
    /\ answer'.otp \notin {Undefined, <<>>}

\* the step writes an entry for email e into the OTP store
Stores(e) ==
    /\ e \in DOMAIN otpStore'
    /\ e \in DOMAIN otpStore => otpStore'[e].seq # otpStore[e].seq

\* C23: a check of an OTP succeeds only if an OTP is stored for the email,
\* the time is not after its expiry and the value given equals the stored
\* one; the expiry is 5 minutes after the issue; a check made after the
\* expiry fails and removes the entry; a check for an email without an
\* entry fails and stores none, and only a forgot-password request answered
\* 200 for the email stores one.
C23_VerifyOnlyStoredUnexpired ==
    /\ [][VerifyStep =>
            LET e == answer'.email
                o == answer'.otp
            IN  /\ answer'.status = 200 =>
                      /\ e \in DOMAIN otpStore
                      /\ now <= otpStore[e].expires
                      /\ otpStore[e].otp = o
                /\ (e \in DOMAIN otpStore /\ now > otpStore[e].expires) =>
                      /\ answer'.status = 400
                      /\ e \notin DOMAIN otpStore'
                /\ e \notin DOMAIN otpStore =>
                      /\ answer'.status = 400
                      /\ e \notin DOMAIN otpStore']_vars
    /\ [][\A e \in Emails \cup {NoAccountEmail} :
            Stores(e) =>
                /\ answer'.op = "forgot" /\ answer'.email = e /\ answer'.status = 200
                /\ otpStore'[e].expires = now + 5]_vars

\* C23 witness: more than 5 minutes after the issue, the OTP that was
\* issued has been checked and refused, and the entry is gone
C23_Witness ==
    /\ answer.op = "verify" /\ answer.status = 400
    /\ answer.email \in Emails
    /\ devLog[answer.email] # <<>>
    /\ answer.otp = devLog[answer.email][Len(devLog[answer.email])]
    /\ answer.email \notin DOMAIN otpStore
    /\ now > 5

\* the OTP last issued for email e: the last one written to the console
LastIssued(e) == devLog[e][Len(devLog[e])]

\* C26: when forgot-password has issued OTPs for an email, verify-otp and
\* the check of reset-password accept for that email no other value than
\* the one issued last, so an earlier OTP of another value is refused from
\* the later issue on; and a forgot-password request leaves the entries of
\* the other emails as they are.
C26_OnlyLatestOtp ==
    /\ [](answer.op = "verify" /\ answer.status = 200 =>
            /\ answer.email \in Emails
            /\ devLog[answer.email] # <<>>
            /\ answer.otp = LastIssued(answer.email))
    /\ [][\A s \in 1..MaxResets :
            (resets[s].pc = "idle" /\ resets'[s].pc = "lookup") =>
                /\ resets'[s].email \in Emails
                /\ devLog[resets'[s].email] # <<>>
                /\ resets'[s].otp = LastIssued(resets'[s].email)]_vars
    /\ [][(answer'.op = "forgot" /\ otpSeq' # otpSeq) =>
            \A e \in Emails \ {answer'.email} :
                /\ e \in DOMAIN otpStore <=> e \in DOMAIN otpStore'
                /\ e \in DOMAIN otpStore => otpStore'[e] = otpStore[e]]_vars

\* C26 witness: two different OTPs were issued for an email after one for
\* the other email; the earlier one has just been refused by verify-otp
\* while the later one and the other email's are in the store
C26_Witness ==
    /\ answer.op = "verify" /\ answer.status = 400
    /\ answer.email \in Emails
    /\ Len(devLog[answer.email]) = 2
    /\ devLog[answer.email][1] # devLog[answer.email][2]
    /\ answer.otp = devLog[answer.email][1]
    /\ DOMAIN otpStore = Emails
    /\ otpStore[answer.email].otp = devLog[answer.email][2]
    /\ \A e \in Emails \ {answer.email} : otpStore[e].seq = 1

\* ---------------------------------------------------------------------
\* PUT and DELETE /api/publications/:id, one step per await; each caller has
\* one request in flight at a time, and the requests of different callers
\* interleave

\* a PUT or DELETE arrives from session user u: the 401 answer, or the id is
\* parsed and the handler awaits storage.getPublication
PutRequest(u, id, patch) ==
    /\ edits[u].pc = "idle"
    /\ edits' = [edits EXCEPT ![u] =
                    [pc |-> IF u = NoUser THEN "done" ELSE "check", op |-> "put",
                     user |-> u, id |-> id, patch |-> patch,
                     status |-> IF u = NoUser THEN 401 ELSE 0]]
    /\ UNCHANGED <<pubVars, authVars, socialVars>>

\* mutant of PutCheck: the handler without its owner-or-admin test
PutCheck_NoOwnerTest(e) ==
    /\ edits[e].pc = "check"
    /\ edits[e].op = "put"
    /\ edits' = [edits EXCEPT ![e] =
                    IF getPublication(edits[e].id) = {}
                    THEN [@ EXCEPT !.pc = "done", !.status = 404]
                    ELSE [@ EXCEPT !.pc = "write"]]
    /\ UNCHANGED <<pubVars, authVars, socialVars>>

\* getPublication has answered: 404 without the row, 403 for a caller who is
\* neither its owner nor an admin, else the body is parsed and the handler
\* awaits storage.updatePublication
PutCheck(e) ==
    /\ edits[e].pc = "check"
    /\ edits[e].op = "put"
    /\ edits' = [edits EXCEPT ![e] =
                    IF getPublication(edits[e].id) = {}
                    THEN [@ EXCEPT !.pc = "done", !.status = 404]
                    ELSE IF \E p \in getPublication(edits[e].id) :
                                p.userId # edits[e].user /\ ~IsAdmin(edits[e].user)
                         THEN [@ EXCEPT !.pc = "done", !.status = 403]
                         ELSE [@ EXCEPT !.pc = "write"]]
    /\ UNCHANGED <<pubVars, authVars, socialVars>>

\* DatabaseStorage.updatePublication sets the columns of the rows with the id
\* (none, if the row has gone since), and res.json answers 200
PutUpdate(e) ==
    /\ edits[e].pc = "write"
    /\ edits[e].op = "put"
    /\ publications' = { IF p.id = edits[e].id THEN SetColumns(p, edits[e].patch) ELSE p :
                            p \in publications }
    /\ edits' = [edits EXCEPT ![e] = [@ EXCEPT !.pc = "done", !.status = 200]]
    /\ UNCHANGED <<pubSeq, req, pubsRead, grouped, outcome, res, other, authVars, socialVars>>

DeleteRequest(u, id) ==
    /\ edits[u].pc = "idle"
    /\ edits' = [edits EXCEPT ![u] =
                    [pc |-> IF u = NoUser THEN "done" ELSE "check", op |-> "delete",
                     user |-> u, id |-> id, patch |-> <<>>,
                     status |-> IF u = NoUser THEN 401 ELSE 0]]
    /\ UNCHANGED <<pubVars, authVars, socialVars>>

\* getPublication has answered: 404, 403, or the handler awaits
\* storage.deletePublication
DeleteCheck(e) ==
    /\ edits[e].pc = "check"
    /\ edits[e].op = "delete"
    /\ edits' = [edits EXCEPT ![e] =
                    IF getPublication(edits[e].id) = {}
                    THEN [@ EXCEPT !.pc = "done", !.status = 404]
                    ELSE IF \E p \in getPublication(edits[e].id) :
                                p.userId # edits[e].user /\ ~IsAdmin(edits[e].user)
                         THEN [@ EXCEPT !.pc = "done", !.status = 403]
                         ELSE [@ EXCEPT !.pc = "write"]]
    /\ UNCHANGED <<pubVars, authVars, socialVars>>

\* DatabaseStorage.deletePublication deletes the rows with the id, and
\* res.sendStatus answers 204
DeleteRemove(e) ==
    /\ edits[e].pc = "write"
    /\ edits[e].op = "delete"
    /\ publications' = { p \in publications : p.id # edits[e].id }
    /\ edits' = [edits EXCEPT ![e] = [@ EXCEPT !.pc = "done", !.status = 204]]
    /\ UNCHANGED <<pubSeq, req, pubsRead, grouped, outcome, res, other, authVars, socialVars>>

\* the answer has been sent
EditClose(e) ==
    /\ edits[e].pc = "done"
    /\ edits' = [edits EXCEPT ![e] = IdleEdit]
    /\ UNCHANGED <<pubVars, authVars, socialVars>>

\* the bodies posted while PUT and DELETE requests are followed
OwnerBodies == { b \in InsertBodies : b.title = <<"B">> }

NextOwner ==
    \/ \E u \in Users, body \in OwnerBodies : PostPublication(u, body)
    \/ \E u \in Callers, id \in 1..MaxPubs, patch \in UpdateBodies :
          PutRequest(u, id, patch)
    \/ \E e \in Callers : PutCheck(e)
    \/ \E e \in Callers : PutUpdate(e)
    \/ \E u \in Callers, id \in 1..MaxPubs : DeleteRequest(u, id)
    \/ \E e \in Callers : DeleteCheck(e)
    \/ \E e \in Callers : DeleteRemove(e)
    \/ \E e \in Callers : EditClose(e)

SpecOwner == Init /\ [][NextOwner]_vars

\* the caller of request e is signed in and owns row p or is an admin
Authorized(e, p) ==
    /\ edits[e].user # NoUser
    /\ p.userId = edits[e].user \/ IsAdmin(edits[e].user)

\* C24: a publication row is changed or removed only by the write of a PUT or
\* DELETE request for its id whose caller is signed in and is its owner or an
\* admin; a request goes on to its write only for such a caller and an
\* existing row; every other request is answered 401 (no session), 404 (no
\* row) or 403 (neither owner nor admin), and such an answer leaves the
\* publications as they were.
C24_OwnerOrAdminOnly ==
    [][ /\ \A p \in publications :
             p \notin publications' =>
                \E e \in Callers :
                   /\ edits[e].pc = "write"
                   /\ edits'[e].pc = "done"
                   /\ edits[e].id = p.id
                   /\ Authorized(e, p)
        /\ \A e \in Callers :
             /\ (edits[e].pc # "write" /\ edits'[e].pc = "write") =>
                   \E p \in getPublication(edits[e].id) : Authorized(e, p)
             /\ (edits[e].pc # "done" /\ edits'[e].pc = "done"
                   /\ edits'[e].status \notin {200, 204}) =>
                   /\ publications' = publications
                   /\ edits'[e].status =
                         IF edits'[e].user = NoUser THEN 401
                         ELSE IF getPublication(edits'[e].id) = {} THEN 404
                         ELSE 403
                   /\ edits'[e].status = 403 =>
                         \A p \in getPublication(edits'[e].id) : ~Authorized(e, p)
      ]_vars

\* a user who is neither owner nor admin was answered 403 for the row that
\* an admin who does not own it has since removed
C24_Witness ==
    \E e, f \in Callers :
       /\ edits[e].status = 403
       /\ edits[e].user = 1
       /\ edits[f].status = 204
       /\ edits[f].user = 2
       /\ edits[f].id = edits[e].id
       /\ pubSeq >= edits[e].id
       /\ getPublication(edits[e].id) = {}

\* ---------------------------------------------------------------------
\* Follow, unfollow and friend requests.  Each handler awaits one storage
\* call, one SQL statement, and answers; the created_at and updated_at
\* columns are left out.

\* the ids a route parameter names: the users, and an id no user has
UserIds == Users \cup {3}

Reply(op, u, id, status) == [op |-> op, user |-> u, id |-> id, status |-> status]

\* DatabaseStorage.followUser: one row inserted, with the next serial id
followUser(rows, seq, followerId, followingId) ==
    rows \cup {[id |-> seq + 1, followerId |-> followerId, followingId |-> followingId]}

\* DatabaseStorage.unfollowUser: the rows of the pair deleted
unfollowUser(rows, followerId, followingId) ==
    { r \in rows : ~(r.followerId = followerId /\ r.followingId = followingId) }

\* DatabaseStorage.getFollowers: how often the join lists user u among the
\* followers of userId
getFollowers(rows, userId, u) ==
    Cardinality({ r \in rows : r.followingId = userId /\ r.followerId = u })

\* DatabaseStorage.getFollowing: how often the join lists user u among those
\* userId follows
getFollowing(rows, userId, u) ==
    Cardinality({ r \in rows : r.followerId = userId /\ r.followingId = u })

\* POST /api/users/:id/follow: 401 without a session, 400 for the caller's
\* own id, 500 when the insert fails (the id references no user), else the
\* insert and 200
Follow(u, id) ==
    /\ IF u = NoUser
       THEN /\ reply' = Reply("follow", u, id, 401)
            /\ UNCHANGED <<followers, followSeq>>
       ELSE IF id = u
       THEN /\ reply' = Reply("follow", u, id, 400)
            /\ UNCHANGED <<followers, followSeq>>
       ELSE IF id \notin Users
       THEN /\ reply' = Reply("follow", u, id, 500)
            /\ UNCHANGED <<followers, followSeq>>
       ELSE /\ followSeq < MaxRows
            /\ followers' = followUser(followers, followSeq, u, id)
            /\ followSeq' = followSeq + 1
            /\ reply' = Reply("follow", u, id, 200)
    /\ UNCHANGED <<friendRequests, friendSeq, researchGroups, groupSeq,
                   groupMemberships, memberSeq, memberReqs,
                   pubVars, authVars, editVars>>

\* POST /api/users/:id/unfollow
Unfollow(u, id) ==
    /\ IF u = NoUser
       THEN /\ reply' = Reply("unfollow", u, id, 401)
            /\ UNCHANGED followers
       ELSE /\ followers' = unfollowUser(followers, u, id)
            /\ reply' = Reply("unfollow", u, id, 200)
    /\ UNCHANGED <<followSeq, friendRequests, friendSeq, researchGroups, groupSeq,
                   groupMemberships, memberSeq, memberReqs,
                   pubVars, authVars, editVars>>

\* DatabaseStorage.sendFriendRequest
sendFriendRequest(rows, seq, senderId, receiverId) ==
    rows \cup {[id |-> seq + 1, senderId |-> senderId, receiverId |-> receiverId,
                status |-> "pending"]}

\* DatabaseStorage.acceptFriendRequest and rejectFriendRequest: the status
\* of the rows with the id is set
SetStatus(rows, requestId, status) ==
    { IF r.id = requestId THEN [r EXCEPT !.status = status] ELSE r : r \in rows }

acceptFriendRequest(rows, requestId) == SetStatus(rows, requestId, "accepted")

rejectFriendRequest(rows, requestId) == SetStatus(rows, requestId, "rejected")

\* POST /api/friend-requests/send/:id
SendFriendRequest(u, id) ==
    /\ IF u = NoUser
       THEN /\ reply' = Reply("send", u, id, 401)
            /\ UNCHANGED <<friendRequests, friendSeq>>
       ELSE IF id = u
       THEN /\ reply' = Reply("send", u, id, 400)
            /\ UNCHANGED <<friendRequests, friendSeq>>
       ELSE IF id \notin Users
       THEN /\ reply' = Reply("send", u, id, 500)
            /\ UNCHANGED <<friendRequests, friendSeq>>
       ELSE /\ friendSeq < MaxRows
            /\ friendRequests' = sendFriendRequest(friendRequests, friendSeq, u, id)
            /\ friendSeq' = friendSeq + 1
            /\ reply' = Reply("send", u, id, 201)
    /\ UNCHANGED <<followers, followSeq, researchGroups, groupSeq,
                   groupMemberships, memberSeq, memberReqs,
                   pubVars, authVars, editVars>>

\* POST /api/friend-requests/:id/accept: 401 without a session, else the
\* update and 200
AcceptFriendRequest(u, requestId) ==
    /\ IF u = NoUser
       THEN /\ reply' = Reply("accept", u, requestId, 401)
            /\ UNCHANGED friendRequests
       ELSE /\ friendRequests' = acceptFriendRequest(friendRequests, requestId)
            /\ reply' = Reply("accept", u, requestId, 200)
    /\ UNCHANGED <<friendSeq, followers, followSeq, researchGroups, groupSeq,
                   groupMemberships, memberSeq, memberReqs,
                   pubVars, authVars, editVars>>

\* POST /api/friend-requests/:id/reject
RejectFriendRequest(u, requestId) ==
    /\ IF u = NoUser
       THEN /\ reply' = Reply("reject", u, requestId, 401)
            /\ UNCHANGED friendRequests
       ELSE /\ friendRequests' = rejectFriendRequest(friendRequests, requestId)
            /\ reply' = Reply("reject", u, requestId, 200)
    /\ UNCHANGED <<friendSeq, followers, followSeq, researchGroups, groupSeq,
                   groupMemberships, memberSeq, memberReqs,
                   pubVars, authVars, editVars>>

NextFollow ==
    \/ \E u \in Callers, id \in UserIds : Follow(u, id)
    \/ \E u \in Callers, id \in UserIds : Unfollow(u, id)

SpecFollow == Init /\ [][NextFollow]_vars

NextFriend ==
    \/ \E u \in Callers, id \in UserIds : SendFriendRequest(u, id)
    \/ \E u \in Callers, requestId \in 1..MaxRows : AcceptFriendRequest(u, requestId)
    \/ \E u \in Callers, requestId \in 1..MaxRows : RejectFriendRequest(u, requestId)

SpecFriend == Init /\ [][NextFriend]_vars

\* C27: the status of a friend request changes, from pending to accepted or
\* rejected, only through an accept or reject request made by the
\* authenticated user who is the request's receiver: a step that changes the
\* status of a row is the answer to such a request.
C27_ReceiverDecides ==
    [][ \A r \in friendRequests : \A q \in friendRequests' :
           (q.id = r.id /\ q.status # r.status) =>
              /\ reply'.op \in {"accept", "reject"}
              /\ reply'.id = r.id
              /\ reply'.user = r.receiverId
      ]_vars

\* C28: the status of a friend request is final once it is accepted or
\* rejected: no step changes the status of a row that is not pending, and a
\* pending row changes to accepted or rejected only.
C28_StatusFinal ==
    [][ \A r \in friendRequests : \A q \in friendRequests' :
           (q.id = r.id /\ q.status # r.status) =>
              /\ r.status = "pending"
              /\ q.status \in {"accepted", "rejected"}
      ]_vars

\* C29: the followers relation holds at most one row per (follower,
\* followed) pair, so getFollowers and getFollowing list each user at most
\* once.
C29_OneRowPerPair ==
    /\ \A r, q \in followers :
          (r.followerId = q.followerId /\ r.followingId = q.followingId) => r = q
    /\ \A userId, u \in Users :
          /\ getFollowers(followers, userId, u) <= 1
          /\ getFollowing(followers, userId, u) <= 1

\* ---------------------------------------------------------------------
\* Research groups and their members, one step per await; each caller has
\* one request in flight at a time.  A group row is its id and creator_id (no
\* route writes creator_id after the insert), a membership row its id,
\* group_id and user_id.

getResearchGroup(id) == { g \in researchGroups : g.id = id }

\* POST /api/research-groups with a body the schema accepts
CreateResearchGroup(u) ==
    /\ u # NoUser
    /\ groupSeq < MaxGroups
    /\ researchGroups' = researchGroups \cup {[id |-> groupSeq + 1, creatorId |-> u]}
    /\ groupSeq' = groupSeq + 1
    /\ UNCHANGED <<followers, followSeq, friendRequests, friendSeq, groupMemberships,
                   memberSeq, memberReqs, reply, pubVars, authVars, editVars>>

\* a request arrives from caller u: the 401 answer, or the ids are read and
\* the handler awaits storage.getResearchGroup.  op is "delete" for DELETE
\* /api/research-groups/:id, which names no user id, "add" for POST
\* /api/research-groups/:id/members and "remove" for DELETE
\* /api/research-groups/:groupId/members/:userId.
GroupRequest(u, op, groupId, userId) ==
    /\ memberReqs[u].pc = "idle"
    /\ memberReqs' = [memberReqs EXCEPT ![u] =
                         [pc |-> IF u = NoUser THEN "done" ELSE "check", op |-> op,
                          user |-> u,
                          groupId |-> IF u = NoUser THEN 0 ELSE groupId,
                          userId |-> IF u = NoUser THEN 0 ELSE userId,
                          status |-> IF u = NoUser THEN 401 ELSE 0]]
    /\ UNCHANGED <<followers, followSeq, friendRequests, friendSeq, researchGroups,
                   groupSeq, groupMemberships, memberSeq, reply,
                   pubVars, authVars, editVars>>

\* the test each handler makes on the group it read
Forbidden(r, group) ==
    IF r.op = "remove"
    THEN group.creatorId # r.user /\ r.userId # r.user
    ELSE group.creatorId # r.user

\* mutant of GroupCheck: the handlers without their creator test
GroupCheck_NoCreatorTest(u) ==
    /\ memberReqs[u].pc = "check"
    /\ memberReqs' = [memberReqs EXCEPT ![u] =
                         IF getResearchGroup(memberReqs[u].groupId) = {}
                         THEN [@ EXCEPT !.pc = "done", !.status = 404]
                         ELSE [@ EXCEPT !.pc = "write"]]
    /\ UNCHANGED <<followers, followSeq, friendRequests, friendSeq, researchGroups,
                   groupSeq, groupMemberships, memberSeq, reply,
                   pubVars, authVars, editVars>>

\* getResearchGroup has answered: 404 without the group, 403 for a caller the
\* handler's test forbids, else the handler awaits its write
GroupCheck(u) ==
    /\ memberReqs[u].pc = "check"
    /\ memberReqs' = [memberReqs EXCEPT ![u] =
                         IF getResearchGroup(memberReqs[u].groupId) = {}
                         THEN [@ EXCEPT !.pc = "done", !.status = 404]
                         ELSE IF \E g \in getResearchGroup(memberReqs[u].groupId) :
                                     Forbidden(memberReqs[u], g)
                              THEN [@ EXCEPT !.pc = "done", !.status = 403]
                              ELSE [@ EXCEPT !.pc = "write"]]
    /\ UNCHANGED <<followers, followSeq, friendRequests, friendSeq, researchGroups,
                   groupSeq, groupMemberships, memberSeq, reply,
                   pubVars, authVars, editVars>>

\* DatabaseStorage.deleteResearchGroup: the group's row is deleted and, by
\* the cascade of group_memberships.group_id, its memberships; 204
DeleteResearchGroup(u) ==
    /\ memberReqs[u].pc = "write"
    /\ memberReqs[u].op = "delete"
    /\ researchGroups' = { g \in researchGroups : g.id # memberReqs[u].groupId }
    /\ groupMemberships' = { m \in groupMemberships : m.groupId # memberReqs[u].groupId }
    /\ memberReqs' = [memberReqs EXCEPT ![u] = [@ EXCEPT !.pc = "done", !.status = 204]]
    /\ UNCHANGED <<followers, followSeq, friendRequests, friendSeq, groupSeq, memberSeq,
                   reply, pubVars, authVars, editVars>>

\* DatabaseStorage.addGroupMember: a row is inserted and the answer is 201;
\* the insert fails, and the catch answers 500, when the group has gone
\* since it was read or the user id references no user.  A group id that
\* names no group is one not yet created or one deleted.
AddGroupMember(u) ==
    /\ memberReqs[u].pc = "write"
    /\ memberReqs[u].op = "add"
    /\ IF getResearchGroup(memberReqs[u].groupId) = {} \/ memberReqs[u].userId \notin Users
       THEN /\ memberReqs' = [memberReqs EXCEPT ![u] =
                                 [@ EXCEPT !.pc = "done", !.status = 500]]
            /\ UNCHANGED <<groupMemberships, memberSeq>>
       ELSE /\ memberSeq < MaxMembers
            /\ groupMemberships' = groupMemberships \cup
                  {[id |-> memberSeq + 1, groupId |-> memberReqs[u].groupId,
                    userId |-> memberReqs[u].userId]}
            /\ memberSeq' = memberSeq + 1
            /\ memberReqs' = [memberReqs EXCEPT ![u] =
                                 [@ EXCEPT !.pc = "done", !.status = 201]]
    /\ UNCHANGED <<followers, followSeq, friendRequests, friendSeq, researchGroups,
                   groupSeq, reply, pubVars, authVars, editVars>>

\* DatabaseStorage.removeGroupMember: the rows of the group and user are
\* deleted; 204
RemoveGroupMember(u) ==
    /\ memberReqs[u].pc = "write"
    /\ memberReqs[u].op = "remove"
    /\ groupMemberships' =
          { m \in groupMemberships :
               ~(m.groupId = memberReqs[u].groupId /\ m.userId = memberReqs[u].userId) }
    /\ memberReqs' = [memberReqs EXCEPT ![u] = [@ EXCEPT !.pc = "done", !.status = 204]]
    /\ UNCHANGED <<followers, followSeq, friendRequests, friendSeq, researchGroups,
                   groupSeq, memberSeq, reply, pubVars, authVars, editVars>>

\* the answer has been sent
GroupClose(u) ==
    /\ memberReqs[u].pc = "done"
    /\ memberReqs' = [memberReqs EXCEPT ![u] = IdleMember]
    /\ UNCHANGED <<followers, followSeq, friendRequests, friendSeq, researchGroups,
                   groupSeq, groupMemberships, memberSeq, reply,
                   pubVars, authVars, editVars>>

NextGroup ==
    \/ \E u \in Users : CreateResearchGroup(u)
    \/ \E u \in Callers, groupId \in 1..MaxGroups : GroupRequest(u, "delete", groupId, 0)
    \/ \E u \in Callers, op \in {"add", "remove"}, groupId \in 1..MaxGroups,
          userId \in Users : GroupRequest(u, op, groupId, userId)
    \/ \E u \in Callers : GroupCheck(u)
    \/ \E u \in Callers : DeleteResearchGroup(u)
    \/ \E u \in Callers : AddGroupMember(u)
    \/ \E u \in Callers : RemoveGroupMember(u)
    \/ \E u \in Callers : GroupClose(u)

SpecGroup == Init /\ [][NextGroup]_vars

\* caller u is the creator of the group with the id
Creator(u, groupId) ==
    \E g \in researchGroups : g.id = groupId /\ g.creatorId = u

\* caller u's request finishes its write in this step
Writes(u, op) ==
    /\ u # NoUser
    /\ memberReqs[u].pc = "write"
    /\ memberReqs[u].op = op
    /\ memberReqs'[u].pc = "done"

\* C30: a membership is added only by the write of an add request of the
\* group's creator, and removed only by the write of a remove request of the
\* group's creator or of the member removed (or with the group, which its
\* creator deletes); a request of any other signed-in caller is answered 403
\* and a request on a missing group 404, and these answers leave the
\* memberships as they were.
C30_MembershipAuthorized ==
    [][ /\ \A m \in groupMemberships' \ groupMemberships :
             \E u \in Callers :
                /\ Writes(u, "add")
                /\ memberReqs[u].groupId = m.groupId
                /\ memberReqs[u].userId = m.userId
                /\ Creator(u, m.groupId)
        /\ \A m \in groupMemberships \ groupMemberships' :
             \E u \in Callers :
                /\ memberReqs[u].groupId = m.groupId
                /\ \/ /\ Writes(u, "remove")
                      /\ memberReqs[u].userId = m.userId
                      /\ Creator(u, m.groupId) \/ m.userId = u
                   \/ /\ Writes(u, "delete")
                      /\ Creator(u, m.groupId)
        /\ \A u \in Users :
             (memberReqs[u].pc = "check" /\ memberReqs'[u].pc # "check") =>
                /\ groupMemberships' = groupMemberships
                /\ memberReqs'[u].status =
                      IF getResearchGroup(memberReqs[u].groupId) = {} THEN 404
                      ELSE IF Creator(u, memberReqs[u].groupId) THEN 0
                      ELSE IF memberReqs[u].op = "remove" /\ memberReqs[u].userId = u THEN 0
                      ELSE 403
                /\ memberReqs'[u].pc = "write" <=> memberReqs'[u].status = 0
      ]_vars

\* the creator has added a member, a caller who is not the creator was
\* answered 403 for an add on the same group, and the memberships are those
\* the creator added
C30_Witness ==
    \E u, v \in Users :
       /\ memberReqs[u].status = 201
       /\ Creator(u, memberReqs[u].groupId)
       /\ memberReqs[v].status = 403
       /\ memberReqs[v].op = "add"
       /\ memberReqs[v].groupId = memberReqs[u].groupId
       /\ \E m \in groupMemberships : m.groupId = memberReqs[u].groupId
       /\ \A m \in groupMemberships : m.userId = memberReqs[u].userId

====
